---- MODULE Spec2Model ----
(***************************************************************************)
(* Model of ssi/retrieval/ast_diff_analyzer.py: the Python surface         *)
(* extractor (PythonAnalyzer.extract_public_api), the diff engine          *)
(* (PythonAnalyzer.compare_apis) and the orchestrator's single-file        *)
(* comparison (ASTDiffAnalyzer.analyze_breaking_changes).                   *)
(*                                                                         *)
(* A Python str is a sequence of chunks (TLA+ strings); two strs are equal *)
(* iff their chunk sequences are equal.  Identifiers are written one       *)
(* character per chunk where a prefix matters ("_h" is <<"_", "h">>).      *)
(* A Python dict is a sequence of [k, v] entries in insertion order.       *)
(* A Python list is a sequence.                                            *)
(***************************************************************************)
EXTENDS Integers, Sequences, FiniteSets, TLC

VARIABLES
    old_src,    \* body of the old file (statements as written, unnumbered)
    new_src,    \* body of the new file
    old_api,    \* the dict bound to old_api in analyze_breaking_changes
    new_api,    \* the dict bound to new_api in analyze_breaking_changes
    changes,    \* the list returned by compare_apis
    pc,         \* position in analyze_breaking_changes, then in main
    report,     \* the str returned by generate_report
    output_file, \* the JSON value export_results wrote
    analyzers,  \* self.analyzers: dict from language to analyzer
    old_dir,    \* the files under the old root
    new_dir,    \* the files under the new root
    pair_call,  \* the last call of analyze_breaking_changes on a path
    tree_call,  \* the last call of analyze_directory_changes
    returned    \* the lists the calls of analyze_breaking_changes returned so far

\* the variables of the report and of the export
out_vars == <<report, output_file>>

\* the variables of the registry and of the two directory trees
tree_vars == <<analyzers, old_dir, new_dir, pair_call, tree_call>>

vars == <<old_src, new_src, old_api, new_api, changes, pc, out_vars, tree_vars, returned>>

----------------------------------------------------------------------------
(* Bounds *)

\* statements of the old file plus statements of the new file (top level)
MaxStmts == 2

----------------------------------------------------------------------------
(* Python values *)

None == <<"<None>">>

\* truth value of an Optional[str] in an `if`
Truthy(s) == s # None /\ s # <<>>

\* str.startswith('_')
startswith_underscore(s) == Len(s) > 0 /\ s[1] = "_"

RECURSIVE join(_, _)
\* sep.join(parts)
join(sep, parts) ==
    IF parts = <<>> THEN <<>>
    ELSE IF Len(parts) = 1 THEN parts[1]
    ELSE parts[1] \o sep \o join(sep, Tail(parts))

RECURSIVE replace(_, _, _)
\* s.replace(chunk, by): every occurrence of the chunk is replaced
replace(s, chunk, by) ==
    IF s = <<>> THEN <<>>
    ELSE (IF Head(s) = chunk THEN by ELSE <<Head(s)>>) \o replace(Tail(s), chunk, by)

\* f"line {n}"
line_str(n) == <<"line ", ToString(n)>>

\* key in d
DictHas(d, key) == \E i \in 1..Len(d) : d[i].k = key

\* d[key]
DictGet(d, key) == d[CHOOSE i \in 1..Len(d) : d[i].k = key].v

\* d[key] = val: a new key is appended, an existing key keeps its position
DictSet(d, key, val) ==
    IF DictHas(d, key)
    THEN [i \in 1..Len(d) |-> IF d[i].k = key THEN [k |-> key, v |-> val] ELSE d[i]]
    ELSE Append(d, [k |-> key, v |-> val])

\* list(d): the keys in iteration order
DictKeys(d) == [i \in 1..Len(d) |-> d[i].k]

----------------------------------------------------------------------------
(* ChangeType and SeverityLevel *)

\* a member of an Enum class: its class, its name and its value (a str)
Member(enum, name, value) == [enum |-> enum, name |-> name, value |-> <<value>>]

FUNCTION_REMOVED == Member("ChangeType", "FUNCTION_REMOVED", "function_removed")
FUNCTION_SIGNATURE_CHANGED == Member("ChangeType", "FUNCTION_SIGNATURE_CHANGED", "function_signature_changed")
FUNCTION_ADDED == Member("ChangeType", "FUNCTION_ADDED", "function_added")
CLASS_REMOVED == Member("ChangeType", "CLASS_REMOVED", "class_removed")
CLASS_INHERITANCE_CHANGED == Member("ChangeType", "CLASS_INHERITANCE_CHANGED", "class_inheritance_changed")
CLASS_ADDED == Member("ChangeType", "CLASS_ADDED", "class_added")
METHOD_REMOVED == Member("ChangeType", "METHOD_REMOVED", "method_removed")
METHOD_SIGNATURE_CHANGED == Member("ChangeType", "METHOD_SIGNATURE_CHANGED", "method_signature_changed")
METHOD_ADDED == Member("ChangeType", "METHOD_ADDED", "method_added")
VARIABLE_REMOVED == Member("ChangeType", "VARIABLE_REMOVED", "variable_removed")
VARIABLE_TYPE_CHANGED == Member("ChangeType", "VARIABLE_TYPE_CHANGED", "variable_type_changed")
VARIABLE_ADDED == Member("ChangeType", "VARIABLE_ADDED", "variable_added")
IMPORT_REMOVED == Member("ChangeType", "IMPORT_REMOVED", "import_removed")
IMPORT_ADDED == Member("ChangeType", "IMPORT_ADDED", "import_added")
CONSTANT_VALUE_CHANGED == Member("ChangeType", "CONSTANT_VALUE_CHANGED", "constant_value_changed")
DECORATOR_REMOVED == Member("ChangeType", "DECORATOR_REMOVED", "decorator_removed")
DECORATOR_ADDED == Member("ChangeType", "DECORATOR_ADDED", "decorator_added")

BREAKING == Member("SeverityLevel", "BREAKING", "breaking")
COMPATIBLE == Member("SeverityLevel", "COMPATIBLE", "compatible")
PATCH == Member("SeverityLevel", "PATCH", "patch")
INTERNAL == Member("SeverityLevel", "INTERNAL", "internal")

\* the members of class ChangeType, in definition order
ChangeTypeMembers ==
    <<FUNCTION_REMOVED, FUNCTION_SIGNATURE_CHANGED, FUNCTION_ADDED,
      CLASS_REMOVED, CLASS_INHERITANCE_CHANGED, CLASS_ADDED,
      METHOD_REMOVED, METHOD_SIGNATURE_CHANGED, METHOD_ADDED,
      VARIABLE_REMOVED, VARIABLE_TYPE_CHANGED, VARIABLE_ADDED,
      IMPORT_REMOVED, IMPORT_ADDED, CONSTANT_VALUE_CHANGED,
      DECORATOR_REMOVED, DECORATOR_ADDED>>

\* the members of class SeverityLevel, in definition order
SeverityLevelMembers == <<BREAKING, COMPATIBLE, PATCH, INTERNAL>>

\* Enum.__call__: ChangeType(value) / SeverityLevel(value), the member with
\* that value
EnumCall(members, value) ==
    members[CHOOSE i \in 1..Len(members) : members[i].value = value]

\* additional_info=None
NoInfo == [is_none |-> TRUE]

\* CodeChange(...): the dataclass constructor with its defaults
CodeChange(change_type, severity, description, old_loc, new_loc, old_sig, new_sig, info) ==
    [change_type |-> change_type, severity |-> severity,
     description |-> description,
     old_location |-> old_loc, new_location |-> new_loc,
     old_signature |-> old_sig, new_signature |-> new_sig,
     additional_info |-> info]

----------------------------------------------------------------------------
(* Source statements and ast.parse *)

\* def name(args, *vararg, **kwarg) -> returns: body
FunctionDef(name, args, defaults, vararg, kwarg, returns, body) ==
    [type |-> "FunctionDef", name |-> name, args |-> args, defaults |-> defaults,
     vararg |-> vararg, kwarg |-> kwarg, returns |-> returns,
     decorator_list |-> <<>>, docstring |-> None, body |-> body, lineno |-> 0]

\* class name(bases): body
ClassDef(name, bases, body) ==
    [type |-> "ClassDef", name |-> name, bases |-> bases,
     decorator_list |-> <<>>, docstring |-> None, body |-> body, lineno |-> 0]

\* t1 = t2 = ... = <expression of node type value_type>
Assign(targets, value_type, value) ==
    [type |-> "Assign", targets |-> targets, value_type |-> value_type,
     value |-> value, lineno |-> 0]

\* import n1, n2, ...
Import(names) == [type |-> "Import", names |-> names, lineno |-> 0]

\* from module import n1, n2, ...
ImportFrom(module, names) ==
    [type |-> "ImportFrom", module |-> module, names |-> names, lineno |-> 0]

HasBody(node) == node.type \in {"FunctionDef", "ClassDef"}

RECURSIVE LineCount(_), LinesOf(_)
\* lines a statement takes: its decorators, its header, its docstring and
\* its body (`pass` when there is neither docstring nor body)
LineCount(node) ==
    IF HasBody(node)
    THEN Len(node.decorator_list) + 1
         + (IF node.docstring # None THEN 1 ELSE 0)
         + (IF node.body = <<>>
            THEN (IF node.docstring # None THEN 0 ELSE 1)
            ELSE LinesOf(node.body))
    ELSE 1
LinesOf(body) ==
    IF body = <<>> THEN 0 ELSE LineCount(Head(body)) + LinesOf(Tail(body))

RECURSIVE Numbered(_, _)
\* the statements with their line numbers, the first at line `start`; the
\* line of a def or class is the line of its header, after the decorators
Numbered(body, start) ==
    IF body = <<>> THEN <<>>
    ELSE LET s == Head(body)
             n == IF HasBody(s)
                  THEN [s EXCEPT !.lineno = start + Len(s.decorator_list),
                                 !.body = Numbered(s.body,
                                              start + Len(s.decorator_list) + 1
                                              + (IF s.docstring # None THEN 1 ELSE 0))]
                  ELSE [s EXCEPT !.lineno = start]
         IN  <<n>> \o Numbered(Tail(body), start + LineCount(s))

\* PythonAnalyzer.parse_file: the Module node of the file
parse_file(src) == [type |-> "Module", body |-> Numbered(src, 1)]

RECURSIVE ChildStmts(_)
\* the statements one level below the given nodes, in order
ChildStmts(nodes) ==
    IF nodes = <<>> THEN <<>>
    ELSE (IF HasBody(Head(nodes)) THEN Head(nodes).body ELSE <<>>)
         \o ChildStmts(Tail(nodes))

RECURSIVE WalkLevels(_)
WalkLevels(level) ==
    IF level = <<>> THEN <<>> ELSE level \o WalkLevels(ChildStmts(level))

\* ast.walk(ast_node): breadth first, restricted to statement nodes
walk(ast_node) == WalkLevels(ast_node.body)

----------------------------------------------------------------------------
(* PythonAnalyzer: extraction of the public API *)

\* the api dict extract_public_api starts from
EmptyApi ==
    [functions |-> <<>>, classes |-> <<>>, variables |-> <<>>,
     imports |-> <<>>, constants |-> <<>>]

\* PythonAnalyzer._extract_function_info
_extract_function_info(node) ==
    [name |-> node.name, args |-> node.args, defaults |-> node.defaults,
     vararg |-> node.vararg, kwarg |-> node.kwarg,
     decorators |-> node.decorator_list, lineno |-> node.lineno,
     returns |-> node.returns, docstring |-> node.docstring]

RECURSIVE ClassMethods(_, _)
\* the loop over node.body in _extract_class_info
ClassMethods(body, methods) ==
    IF body = <<>> THEN methods
    ELSE LET item == Head(body)
         IN  ClassMethods(Tail(body),
                 IF item.type = "FunctionDef" /\ ~startswith_underscore(item.name)
                 THEN DictSet(methods, item.name, _extract_function_info(item))
                 ELSE methods)

\* PythonAnalyzer._extract_class_info
_extract_class_info(node) ==
    [name |-> node.name, bases |-> node.bases, decorators |-> node.decorator_list,
     methods |-> ClassMethods(node.body, <<>>), lineno |-> node.lineno,
     docstring |-> node.docstring]

\* PythonAnalyzer._extract_variable_info
_extract_variable_info(node) ==
    [value_type |-> node.value_type, lineno |-> node.lineno, value |-> node.value]

\* PythonAnalyzer._extract_import_info
_extract_import_info(node) ==
    IF node.type = "Import"
    THEN [name |-> node.names[1], type |-> "import", module |-> node.names[1],
          lineno |-> node.lineno]
    ELSE [name |-> IF Truthy(node.module)
                   THEN node.module \o <<".">> \o node.names[1]
                   ELSE node.names[1],
          type |-> "from_import", module |-> node.module,
          imported |-> node.names, lineno |-> node.lineno]

RECURSIVE AssignTargets(_, _, _)
\* the loop over node.targets of an Assign
AssignTargets(targets, node, variables) ==
    IF targets = <<>> THEN variables
    ELSE AssignTargets(Tail(targets), node,
             IF ~startswith_underscore(Head(targets))
             THEN DictSet(variables, Head(targets), _extract_variable_info(node))
             ELSE variables)

\* one iteration of the loop of extract_public_api
ExtractNode(api, node) ==
    IF node.type = "FunctionDef" /\ ~startswith_underscore(node.name)
    THEN [api EXCEPT !.functions = DictSet(@, node.name, _extract_function_info(node))]
    ELSE IF node.type = "ClassDef" /\ ~startswith_underscore(node.name)
    THEN [api EXCEPT !.classes = DictSet(@, node.name, _extract_class_info(node))]
    ELSE IF node.type = "Assign"
    THEN [api EXCEPT !.variables = AssignTargets(node.targets, node, @)]
    ELSE IF node.type \in {"Import", "ImportFrom"}
    THEN LET import_info == _extract_import_info(node)
         IN  [api EXCEPT !.imports = DictSet(@, import_info.name, import_info)]
    ELSE api

RECURSIVE ExtractLoop(_, _)
ExtractLoop(nodes, api) ==
    IF nodes = <<>> THEN api
    ELSE ExtractLoop(Tail(nodes), ExtractNode(api, Head(nodes)))

\* PythonAnalyzer.extract_public_api
extract_public_api(ast_node) == ExtractLoop(walk(ast_node), EmptyApi)

----------------------------------------------------------------------------
(* PythonAnalyzer: the diff engine.                                        *)
(*                                                                         *)
(* The api dicts are mutable objects that the comparison reads through     *)
(* references, so the operators below thread a heap                        *)
(*     H = [old |-> <api dict>, new |-> <api dict>]                        *)
(* and name a dict of function infos by the reference r of its api dict    *)
(* and by loc: None for api['functions'], a class name for                 *)
(* api['classes'][loc]['methods'].                                         *)

\* the dict of function infos named by (r, loc)
Funcs(H, r, loc) ==
    IF loc = None THEN H[r].functions ELSE DictGet(H[r].classes, loc).methods

\* the dict of function infos after args.append(...) on the info of func_name
WithArgs(funcs, func_name, args) ==
    DictSet(funcs, func_name, [DictGet(funcs, func_name) EXCEPT !.args = args])

\* the dict of classes after args.append(...) on the method func_name of loc
WithMethodArgs(classes, loc, func_name, args) ==
    DictSet(classes, loc,
            [DictGet(classes, loc) EXCEPT !.methods = WithArgs(@, func_name, args)])

\* the effect of args.append(...) on the function info (r, loc, func_name)
SetArgs(H, r, loc, func_name, args) ==
    IF loc = None
    THEN [H EXCEPT ![r].functions = WithArgs(@, func_name, args)]
    ELSE [H EXCEPT ![r].classes = WithMethodArgs(@, loc, func_name, args)]

\* if name: args.append(f"{stars}{name}")
AppendIfSet(args, stars, name) ==
    IF Truthy(name) THEN Append(args, <<stars>> \o name) ELSE args

\* the list func_info['args'] after the two conditional appends
ArgsWithVariadics(func_info) ==
    AppendIfSet(AppendIfSet(func_info.args, "*", func_info.vararg), "**", func_info.kwarg)

\* SignatureText without the return annotation
SignatureText_NoReturn(name, args, returns) ==
    name \o <<"(">> \o join(<<", ">>, args) \o <<")">>

\* the string built from the name, the args list and the return annotation
SignatureText(name, args, returns) ==
    name \o <<"(">> \o join(<<", ">>, args) \o <<")">>
         \o (IF Truthy(returns) THEN <<" -> ">> \o returns ELSE <<>>)

\* a signature string that also tells the number of defaults
Formatted_WithDefaults(H, r, loc, func_name, func_info, args) ==
    [sig |-> SignatureText(func_info.name, args, func_info.returns)
             \o (IF func_info.defaults > 0 THEN <<" =">> ELSE <<>>),
     heap |-> SetArgs(H, r, loc, func_name, args)]

\* the result of _format_function_signature, given func_info and the list
\* args after the appends
Formatted(H, r, loc, func_name, func_info, args) ==
    [sig |-> SignatureText(func_info.name, args, func_info.returns),
     heap |-> SetArgs(H, r, loc, func_name, args)]

\* PythonAnalyzer._format_function_signature: the string returned, and the
\* heap after the call (args is the info's own list, appended to in place)
_format_function_signature(H, r, loc, func_name) ==
    Formatted(H, r, loc, func_name, DictGet(Funcs(H, r, loc), func_name),
              ArgsWithVariadics(DictGet(Funcs(H, r, loc), func_name)))

\* f"Function '{func_name}' <what>"
FunctionDescription(func_name, what) == <<"Function", " '">> \o func_name \o <<"'", what>>

\* FunctionRemovedChange without old_signature
FunctionRemovedChange_NoSignature(func_name, lineno, sig) ==
    CodeChange(FUNCTION_REMOVED, BREAKING, FunctionDescription(func_name, " was removed"), line_str(lineno), None, None, None, NoInfo)

\* FunctionSignatureChange without new_location
FunctionSignatureChange_NoNewLocation(func_name, old_lineno, new_lineno, old_sig, new_sig) ==
    CodeChange(FUNCTION_SIGNATURE_CHANGED, BREAKING, FunctionDescription(func_name, " signature changed"), line_str(old_lineno), None, old_sig, new_sig, NoInfo)

FunctionRemovedChange(func_name, lineno, sig) ==
    CodeChange(FUNCTION_REMOVED, BREAKING, FunctionDescription(func_name, " was removed"), line_str(lineno), None, sig, None, NoInfo)

\* FunctionAddedChange with the severity of a removal
FunctionAddedChange_Breaking(func_name, lineno, sig) ==
    CodeChange(FUNCTION_ADDED, BREAKING, FunctionDescription(func_name, " was added"), None, line_str(lineno), None, sig, NoInfo)

FunctionAddedChange(func_name, lineno, sig) ==
    CodeChange(FUNCTION_ADDED, COMPATIBLE, FunctionDescription(func_name, " was added"), None, line_str(lineno), None, sig, NoInfo)

FunctionSignatureChange(func_name, old_lineno, new_lineno, old_sig, new_sig) ==
    CodeChange(FUNCTION_SIGNATURE_CHANGED, BREAKING, FunctionDescription(func_name, " signature changed"), line_str(old_lineno), line_str(new_lineno), old_sig, new_sig, NoInfo)

\* old_funcs[func_name]['lineno'] / new_funcs[func_name]['lineno']
LineOf(H, r, loc, func_name) == DictGet(Funcs(H, r, loc), func_name).lineno

\* changes.append(...) of a removed function; f is the formatted old signature
RemovedFunction(st, f, func_name, lineno) ==
    [heap |-> f.heap,
     changes |-> Append(st.changes, FunctionRemovedChange(func_name, lineno, f.sig))]

RECURSIVE RemovedFunctions(_, _, _, _, _)
\* the first loop of _compare_functions; st = [heap, changes]
RemovedFunctions(st, keys, ro, rn, loc) ==
    IF keys = <<>> THEN st
    ELSE RemovedFunctions(
             IF ~DictHas(Funcs(st.heap, rn, loc), Head(keys))
             THEN RemovedFunction(st, _format_function_signature(st.heap, ro, loc, Head(keys)),
                                  Head(keys), LineOf(st.heap, ro, loc, Head(keys)))
             ELSE st,
             Tail(keys), ro, rn, loc)

\* changes.append(...) of an added function; f is the formatted new signature
AddedFunction(st, f, func_name, lineno) ==
    [heap |-> f.heap,
     changes |-> Append(st.changes, FunctionAddedChange(func_name, lineno, f.sig))]

RECURSIVE AddedFunctions(_, _, _, _, _)
\* the second loop of _compare_functions
AddedFunctions(st, keys, ro, rn, loc) ==
    IF keys = <<>> THEN st
    ELSE AddedFunctions(
             IF ~DictHas(Funcs(st.heap, ro, loc), Head(keys))
             THEN AddedFunction(st, _format_function_signature(st.heap, rn, loc, Head(keys)),
                                Head(keys), LineOf(st.heap, rn, loc, Head(keys)))
             ELSE st,
             Tail(keys), ro, rn, loc)

\* old_sig != new_sig
SignaturesDiffer(old_sig, new_sig) == old_sig # new_sig

\* the body of the third loop once both signatures are formatted (fo, fn)
ChangedFunction(st, fo, fn, func_name, old_lineno, new_lineno) ==
    [heap |-> fn.heap,
     changes |-> IF SignaturesDiffer(fo.sig, fn.sig)
                 THEN Append(st.changes, FunctionSignatureChange(func_name, old_lineno, new_lineno, fo.sig, fn.sig))
                 ELSE st.changes]

\* new_sig is formatted after old_sig (fo), on the heap old_sig left
FormatNew(st, fo, func_name, ro, rn, loc) ==
    ChangedFunction(st, fo, _format_function_signature(fo.heap, rn, loc, func_name),
                    func_name, LineOf(st.heap, ro, loc, func_name), LineOf(st.heap, rn, loc, func_name))

RECURSIVE ChangedFunctions(_, _, _, _, _)
\* the third loop of _compare_functions: old_sig is formatted, then new_sig
ChangedFunctions(st, keys, ro, rn, loc) ==
    IF keys = <<>> THEN st
    ELSE ChangedFunctions(
             IF DictHas(Funcs(st.heap, rn, loc), Head(keys))
             THEN FormatNew(st, _format_function_signature(st.heap, ro, loc, Head(keys)),
                            Head(keys), ro, rn, loc)
             ELSE st,
             Tail(keys), ro, rn, loc)

\* PythonAnalyzer._compare_functions on the dicts (ro, loc) and (rn, loc)
_compare_functions(H, ro, rn, loc) ==
    ChangedFunctions(
        AddedFunctions(
            RemovedFunctions([heap |-> H, changes |-> <<>>], DictKeys(Funcs(H, ro, loc)), ro, rn, loc),
            DictKeys(Funcs(H, rn, loc)), ro, rn, loc),
        DictKeys(Funcs(H, ro, loc)), ro, rn, loc)

\* MethodChangeType without its branch for added functions
MethodChangeType_AddedKept(change_type) ==
    IF change_type = FUNCTION_REMOVED THEN METHOD_REMOVED
    ELSE IF change_type = FUNCTION_SIGNATURE_CHANGED THEN METHOD_SIGNATURE_CHANGED
    ELSE change_type

\* the conversion of change.change_type in _compare_classes
MethodChangeType(change_type) ==
    IF change_type = FUNCTION_REMOVED THEN METHOD_REMOVED
    ELSE IF change_type = FUNCTION_ADDED THEN METHOD_ADDED
    ELSE IF change_type = FUNCTION_SIGNATURE_CHANGED THEN METHOD_SIGNATURE_CHANGED
    ELSE change_type

\* change.description.replace("Function", f"Method in class '{class_name}'")
MethodDescription(description, class_name) ==
    replace(description, "Function", <<"Method in class '">> \o class_name \o <<"'">>)

\* the body of the loop over method_changes in _compare_classes
ToMethodChange(change, class_name) ==
    [change EXCEPT !.change_type = MethodChangeType(@),
                   !.description = MethodDescription(@, class_name)]

\* f"Class '{class_name}' <what>"
ClassDescription(class_name, what) == <<"Class", " '">> \o class_name \o <<"'", what>>

RECURSIVE RemovedClasses(_, _, _, _)
\* the first loop of _compare_classes
RemovedClasses(acc, keys, old_classes, new_classes) ==
    IF keys = <<>> THEN acc
    ELSE RemovedClasses(
             IF ~DictHas(new_classes, Head(keys))
             THEN Append(acc, CodeChange(CLASS_REMOVED, BREAKING, ClassDescription(Head(keys), " was removed"), line_str(DictGet(old_classes, Head(keys)).lineno), None, None, None, NoInfo))
             ELSE acc,
             Tail(keys), old_classes, new_classes)

RECURSIVE AddedClasses(_, _, _, _)
\* the second loop of _compare_classes
AddedClasses(acc, keys, old_classes, new_classes) ==
    IF keys = <<>> THEN acc
    ELSE AddedClasses(
             IF ~DictHas(old_classes, Head(keys))
             THEN Append(acc, CodeChange(CLASS_ADDED, COMPATIBLE, ClassDescription(Head(keys), " was added"), None, line_str(DictGet(new_classes, Head(keys)).lineno), None, None, NoInfo))
             ELSE acc,
             Tail(keys), old_classes, new_classes)

\* BasesDiffer on the sets of bases
BasesDiffer_AsSets(old_bases, new_bases) ==
    {old_bases[i] : i \in 1..Len(old_bases)} # {new_bases[i] : i \in 1..Len(new_bases)}

\* old_class['bases'] != new_class['bases']
BasesDiffer(old_bases, new_bases) == old_bases # new_bases

\* the CLASS_INHERITANCE_CHANGED change of a class
InheritanceChange(class_name, old_class, new_class) ==
    CodeChange(CLASS_INHERITANCE_CHANGED, BREAKING, ClassDescription(class_name, " inheritance changed"), line_str(old_class.lineno), line_str(new_class.lineno), None, None, [is_none |-> FALSE, old_bases |-> old_class.bases, new_bases |-> new_class.bases])

\* the inheritance check of a class present in both: the changes it appends
InheritanceCheck(class_name, old_class, new_class) ==
    IF BasesDiffer(old_class.bases, new_class.bases)
    THEN <<InheritanceChange(class_name, old_class, new_class)>>
    ELSE <<>>

RECURSIVE MapToMethodChanges(_, _)
MapToMethodChanges(method_changes, class_name) ==
    IF method_changes = <<>> THEN <<>>
    ELSE <<ToMethodChange(Head(method_changes), class_name)>>
         \o MapToMethodChanges(Tail(method_changes), class_name)

\* the body of the third loop for a class present in both; m is the result
\* of _compare_functions on its methods
CommonClass(st, m, class_name, ro, rn) ==
    [heap |-> m.heap,
     changes |-> st.changes
                 \o InheritanceCheck(class_name, DictGet(st.heap[ro].classes, class_name),
                                     DictGet(st.heap[rn].classes, class_name))
                 \o MapToMethodChanges(m.changes, class_name)]

RECURSIVE CommonClasses(_, _, _, _)
\* the third loop of _compare_classes: inheritance, then the methods
CommonClasses(st, keys, ro, rn) ==
    IF keys = <<>> THEN st
    ELSE CommonClasses(
             IF DictHas(st.heap[rn].classes, Head(keys))
             THEN CommonClass(st, _compare_functions(st.heap, ro, rn, Head(keys)), Head(keys), ro, rn)
             ELSE st,
             Tail(keys), ro, rn)

\* PythonAnalyzer._compare_classes on api['classes'] of ro and of rn
_compare_classes(H, ro, rn) ==
    CommonClasses(
        [heap |-> H,
         changes |-> AddedClasses(
                         RemovedClasses(<<>>, DictKeys(H[ro].classes), H[ro].classes, H[rn].classes),
                         DictKeys(H[rn].classes), H[ro].classes, H[rn].classes)],
        DictKeys(H[ro].classes), ro, rn)

RECURSIVE RemovedEntries(_, _, _, _, _, _, _)
\* the first loop of _compare_variables and of _compare_imports
RemovedEntries(acc, keys, old, new, change_type, severity, noun) ==
    IF keys = <<>> THEN acc
    ELSE RemovedEntries(
             IF ~DictHas(new, Head(keys))
             THEN Append(acc, CodeChange(change_type, severity, <<noun, " '">> \o Head(keys) \o <<"'", " was removed">>, line_str(DictGet(old, Head(keys)).lineno), None, None, None, NoInfo))
             ELSE acc,
             Tail(keys), old, new, change_type, severity, noun)

RECURSIVE AddedEntries(_, _, _, _, _, _, _)
\* the second loop of _compare_variables and of _compare_imports
AddedEntries(acc, keys, old, new, change_type, severity, noun) ==
    IF keys = <<>> THEN acc
    ELSE AddedEntries(
             IF ~DictHas(old, Head(keys))
             THEN Append(acc, CodeChange(change_type, severity, <<noun, " '">> \o Head(keys) \o <<"'", " was added">>, None, line_str(DictGet(new, Head(keys)).lineno), None, None, NoInfo))
             ELSE acc,
             Tail(keys), old, new, change_type, severity, noun)

\* _compare_variables without its second loop
_compare_variables_RemovedOnly(old_vars, new_vars) ==
    RemovedEntries(<<>>, DictKeys(old_vars), old_vars, new_vars, VARIABLE_REMOVED, BREAKING, "Variable")

\* PythonAnalyzer._compare_variables
_compare_variables(old_vars, new_vars) ==
    AddedEntries(
        RemovedEntries(<<>>, DictKeys(old_vars), old_vars, new_vars, VARIABLE_REMOVED, BREAKING, "Variable"),
        DictKeys(new_vars), old_vars, new_vars, VARIABLE_ADDED, COMPATIBLE, "Variable")

\* PythonAnalyzer._compare_imports
_compare_imports(old_imports, new_imports) ==
    AddedEntries(
        RemovedEntries(<<>>, DictKeys(old_imports), old_imports, new_imports, IMPORT_REMOVED, INTERNAL, "Import"),
        DictKeys(new_imports), old_imports, new_imports, IMPORT_ADDED, INTERNAL, "Import")

\* changes.extend(...) four times, with the variables before the classes
Extended_VariablesFirst(f, c, v, i) ==
    [heap |-> c.heap, changes |-> f.changes \o v \o c.changes \o i]

\* changes.extend(...) four times: f and c are the results of
\* _compare_functions and _compare_classes, v and i the variable and import
\* changes
Extended(f, c, v, i) ==
    [heap |-> c.heap, changes |-> f.changes \o c.changes \o v \o i]

\* the comparisons of compare_apis that follow _compare_classes (c)
AfterClasses(f, c, ro, rn) ==
    Extended(f, c,
             _compare_variables(c.heap[ro].variables, c.heap[rn].variables),
             _compare_imports(c.heap[ro].imports, c.heap[rn].imports))

\* the comparisons of compare_apis that follow _compare_functions (f)
AfterFunctions(f, ro, rn) == AfterClasses(f, _compare_classes(f.heap, ro, rn), ro, rn)

\* PythonAnalyzer.compare_apis(H[ro], H[rn]): the changes, and the heap after
compare_apis(H, ro, rn) == AfterFunctions(_compare_functions(H, ro, rn, None), ro, rn)

----------------------------------------------------------------------------
(* CodeChange.to_dict / from_dict, and the json module on the values the   *)
(* program hands to it.  A JSON value is null, a string, an array or an    *)
(* object (members in order).                                              *)

JNull == [json |-> "null"]
JString(s) == [json |-> "string", chars |-> s]
JArray(items) == [json |-> "array", items |-> items]
JObject(members) == [json |-> "object", members |-> members]

\* one (key, value) item of a dict or of a JSON object
Item(key, val) == [k |-> <<key>>, v |-> val]

\* to_dict with old_location and new_location under each other's key
to_dict_LocationsSwapped(self) ==
    <<Item("change_type", self.change_type.value),
      Item("severity", self.severity.value),
      Item("description", self.description),
      Item("old_location", self.new_location),
      Item("new_location", self.old_location),
      Item("old_signature", self.old_signature),
      Item("new_signature", self.new_signature),
      Item("additional_info", self.additional_info)>>

\* CodeChange.to_dict
to_dict(self) ==
    <<Item("change_type", self.change_type.value),
      Item("severity", self.severity.value),
      Item("description", self.description),
      Item("old_location", self.old_location),
      Item("new_location", self.new_location),
      Item("old_signature", self.old_signature),
      Item("new_signature", self.new_signature),
      Item("additional_info", self.additional_info)>>

\* data.get(key): the value, or None when the key is missing
get(data, key) == IF DictHas(data, <<key>>) THEN DictGet(data, <<key>>) ELSE None

\* data.get('additional_info')
get_info(data) ==
    IF DictHas(data, <<"additional_info">>) THEN DictGet(data, <<"additional_info">>) ELSE NoInfo

\* CodeChange.from_dict
from_dict(data) ==
    CodeChange(EnumCall(ChangeTypeMembers, DictGet(data, <<"change_type">>)),
               EnumCall(SeverityLevelMembers, DictGet(data, <<"severity">>)),
               DictGet(data, <<"description">>),
               get(data, "old_location"), get(data, "new_location"),
               get(data, "old_signature"), get(data, "new_signature"),
               get_info(data))

\* json encoding of an Optional[str]
DumpOptionalStr(s) == IF s = None THEN JNull ELSE JString(s)

\* json encoding of a list of str
DumpStrList(l) == JArray([i \in 1..Len(l) |-> JString(l[i])])

\* json encoding of additional_info: None, or the dict of the two base lists
DumpInfo(info) ==
    IF info.is_none THEN JNull
    ELSE JObject(<<Item("old_bases", DumpStrList(info.old_bases)),
                   Item("new_bases", DumpStrList(info.new_bases))>>)

\* json encoding of one value of the dict made by to_dict
DumpField(item) ==
    IF item.k = <<"additional_info">> THEN DumpInfo(item.v) ELSE DumpOptionalStr(item.v)

\* json encoding of the dict made by to_dict
DumpDict(d) == JObject([i \in 1..Len(d) |-> [k |-> d[i].k, v |-> DumpField(d[i])]])

----------------------------------------------------------------------------
(* ASTDiffAnalyzer.export_results and generate_report *)

\* [change.to_dict() for change in changes], as json.dump writes it
DumpChanges(change_list) == JArray([i \in 1..Len(change_list) |-> DumpDict(to_dict(change_list[i]))])

\* export_results(changes, output_file) for a list: the content of the file
export_results(change_list) == DumpChanges(change_list)

\* str.upper() of the value of a SeverityLevel member
upper(s) ==
    [i \in 1..Len(s) |->
        CASE s[i] = "breaking" -> "BREAKING"
          [] s[i] = "compatible" -> "COMPATIBLE"
          [] s[i] = "patch" -> "PATCH"
          [] s[i] = "internal" -> "INTERNAL"
          [] OTHER -> s[i]]

\* the character U+2022 that starts the line of a change
Bullet == "<U+2022>"

\* report_lines.append(line) if the field is truthy
LineIf(cond, prefix, field) == IF cond THEN << <<prefix>> \o field >> ELSE <<>>

\* the lines generate_report appends for one change
ChangeBlock(change) ==
    << <<Bullet, " ">> \o change.description >>
    \o LineIf(Truthy(change.old_location), "  Old: ", change.old_location)
    \o LineIf(Truthy(change.new_location), "  New: ", change.new_location)
    \o LineIf(Truthy(change.old_signature) /\ Truthy(change.new_signature),
              "  Old signature: ", change.old_signature)
    \o LineIf(Truthy(change.old_signature) /\ Truthy(change.new_signature),
              "  New signature: ", change.new_signature)
    \o << <<>> >>

RECURSIVE ChangeBlocks(_)
\* the loop over by_severity[severity]
ChangeBlocks(group) ==
    IF group = <<>> THEN <<>> ELSE ChangeBlock(Head(group)) \o ChangeBlocks(Tail(group))

\* by_severity[severity]: the changes of the severity, in input order
BySeverity(change_list, severity) ==
    LET Has(change) == change.severity = severity IN SelectSeq(change_list, Has)

\* the header of a severity
SeverityHeader(severity) == upper(severity.value) \o <<" CHANGES:">>

\* the lines of one severity: nothing if it is not in by_severity
SeveritySection(group, severity) ==
    IF group = <<>> THEN <<>>
    ELSE <<SeverityHeader(severity), <<"--------------------">> >>
         \o ChangeBlocks(group) \o << <<>> >>

\* a display order that starts with Internal
DisplayOrder_InternalFirst == <<INTERNAL, BREAKING, COMPATIBLE, PATCH>>

\* the display order of generate_report
DisplayOrder == <<BREAKING, COMPATIBLE, PATCH, INTERNAL>>

RECURSIVE SeveritySections(_, _)
\* the loop over the severities
SeveritySections(change_list, severities) ==
    IF severities = <<>> THEN <<>>
    ELSE SeveritySection(BySeverity(change_list, Head(severities)), Head(severities))
         \o SeveritySections(change_list, Tail(severities))

\* the string generate_report returns for no change
NoChangesReport == <<"No breaking changes detected.">>

\* ASTDiffAnalyzer.generate_report
generate_report(change_list) ==
    IF change_list = <<>> THEN NoChangesReport
    ELSE join(<<"\n">>,
              << <<"Breaking Changes Analysis Report">>,
                 <<"========================================">>,
                 <<>> >>
              \o SeveritySections(change_list, DisplayOrder))

----------------------------------------------------------------------------
(* ASTDiffAnalyzer: the registry of analyzers, analyze_breaking_changes as  *)
(* one call, and analyze_directory_changes.                                *)
(*                                                                         *)
(* A path relative to a root is a str whose last chunk is its suffix       *)
(* ("pkg/a.py" is <<"pkg/", "a", ".py">>).  A root directory is a dict     *)
(* from the relative paths of its files, in the order rglob yields them,   *)
(* to their content: [ok |-> TRUE, body |-> statements] for a file that    *)
(* ast.parse accepts, [ok |-> FALSE, body |-> <<>>] for one it rejects.    *)

\* self.analyzers as __init__ leaves it
DefaultAnalyzers == <<[k |-> <<".py">>, v |-> "PythonAnalyzer"]>>

\* Path(p).suffix
suffix(path) == IF path = <<>> THEN <<>> ELSE <<path[Len(path)]>>

\* str.lower() of a suffix
lower(s) ==
    [i \in 1..Len(s) |->
        CASE s[i] = ".PY" -> ".py"
          [] s[i] = ".PYI" -> ".pyi"
          [] OTHER -> s[i]]

\* no exception
NoException == [type |-> "", message |-> <<>>]

\* an exception of a type with the str(e) of the message
Exception(type, message) == [type |-> type, message |-> message]

\* analyze_breaking_changes left by an exception, after open() on the files
Raises(exception, opened) == [raised |-> exception, changes |-> <<>>, opened |-> opened]

\* analyze_breaking_changes returned the changes
Returns(change_list, opened) == [raised |-> NoException, changes |-> change_list, opened |-> opened]

\* the language resolved without lower()
ResolvedLanguage_AsWritten(path, language) ==
    IF language = None THEN suffix(path) ELSE language

\* the language analyze_breaking_changes resolves
ResolvedLanguage(path, language) ==
    IF language = None THEN lower(suffix(path)) ELSE language

\* open() and ast.parse of the file at a path under a root: the exception
OpenAndParse(root, path) ==
    IF ~DictHas(root, path)
    THEN Exception("FileNotFoundError", <<"No such file or directory: ">> \o path)
    ELSE IF ~DictGet(root, path).ok
    THEN Exception("SyntaxError", <<"invalid syntax">>)
    ELSE NoException

\* the public API of the file at a path under a root
ApiOf(root, path) == extract_public_api(parse_file(DictGet(root, path).body))

\* the steps of analyze_breaking_changes once the analyzer is chosen
ParseExtractCompare(old_root, new_root, path) ==
    IF OpenAndParse(old_root, path) # NoException
    THEN Raises(OpenAndParse(old_root, path), <<"old">>)
    ELSE IF OpenAndParse(new_root, path) # NoException
    THEN Raises(OpenAndParse(new_root, path), <<"old", "new">>)
    ELSE Returns(compare_apis([old |-> ApiOf(old_root, path), new |-> ApiOf(new_root, path)],
                              "old", "new").changes,
                 <<"old", "new">>)

\* ASTDiffAnalyzer.analyze_breaking_changes(old_root/path, new_root/path,
\* language) as one call: the exception or the changes, and the files opened
analyze_breaking_changes(registry, old_root, new_root, path, language) ==
    IF ~DictHas(registry, ResolvedLanguage(path, language))
    THEN Raises(Exception("ValueError", <<"Unsupported language: ">> \o ResolvedLanguage(path, language)),
                <<>>)
    ELSE ParseExtractCompare(old_root, new_root, path)

\* fnmatch of the name of a path against a pattern <<"*", suffix>>
Matches(pattern, path) == path # <<>> /\ path[Len(path)] = pattern[2]

\* old_path.rglob(pattern): the matching paths, relative to the root
rglob(root, pattern) ==
    LET IsMatch(path) == Matches(pattern, path) IN SelectSeq(DictKeys(root), IsMatch)

\* results, the lines printed and the files opened, before the loops
NothingVisited == [results |-> <<>>, stdout |-> <<>>, opened |-> <<>>]

\* the files one call of analyze_breaking_changes opened, by root and path
OpenedBy(r, path) == [i \in 1..Len(r.opened) |-> [root |-> r.opened[i], path |-> path]]

\* the try statement with an except branch that prints nothing
Tried_Silent(st, path, r) ==
    IF r.raised # NoException
    THEN [st EXCEPT !.opened = @ \o OpenedBy(r, path)]
    ELSE IF r.changes # <<>>
    THEN [st EXCEPT !.results = DictSet(@, path, r.changes),
                    !.opened = @ \o OpenedBy(r, path)]
    ELSE [st EXCEPT !.opened = @ \o OpenedBy(r, path)]

\* the try statement, given the outcome r of analyze_breaking_changes
Tried(st, path, r) ==
    IF r.raised # NoException
    THEN [st EXCEPT !.stdout = Append(@, <<"Error analyzing ">> \o path \o <<": ">> \o r.raised.message),
                    !.opened = @ \o OpenedBy(r, path)]
    ELSE IF r.changes # <<>>
    THEN [st EXCEPT !.results = DictSet(@, path, r.changes),
                    !.opened = @ \o OpenedBy(r, path)]
    ELSE [st EXCEPT !.opened = @ \o OpenedBy(r, path)]

\* the body of the inner loop without the test new_file.exists()
VisitFile_NoExistsTest(st, registry, old_root, new_root, path) ==
    Tried(st, path, analyze_breaking_changes(registry, old_root, new_root, path, None))

\* the body of the inner loop for one path of the old root
VisitFile(st, registry, old_root, new_root, path) ==
    IF DictHas(new_root, path)
    THEN Tried(st, path, analyze_breaking_changes(registry, old_root, new_root, path, None))
    ELSE st

RECURSIVE VisitFiles(_, _, _, _, _)
\* for old_file in old_path.rglob(pattern)
VisitFiles(st, registry, old_root, new_root, paths) ==
    IF paths = <<>> THEN st
    ELSE VisitFiles(VisitFile(st, registry, old_root, new_root, Head(paths)),
                    registry, old_root, new_root, Tail(paths))

RECURSIVE VisitPatterns(_, _, _, _, _)
\* for pattern in file_patterns
VisitPatterns(st, registry, old_root, new_root, patterns) ==
    IF patterns = <<>> THEN st
    ELSE VisitPatterns(VisitFiles(st, registry, old_root, new_root, rglob(old_root, Head(patterns))),
                       registry, old_root, new_root, Tail(patterns))

\* no call of analyze_breaking_changes made yet
NoPairCall ==
    [called |-> FALSE, path |-> <<>>, language |-> None,
     raised |-> NoException, changes |-> <<>>, opened |-> <<>>]

\* no call of analyze_directory_changes made yet
NoTreeCall ==
    [called |-> FALSE, file_patterns |-> None,
     results |-> <<>>, stdout |-> <<>>, opened |-> <<>>]

\* the analyzer as constructed, no tree given and no call made
TreeIdle ==
    /\ analyzers = DefaultAnalyzers
    /\ old_dir = <<>>
    /\ new_dir = <<>>
    /\ pair_call = NoPairCall
    /\ tree_call = NoTreeCall

\* the patterns used when file_patterns is None
DefaultPatterns == << <<"*", ".py">> >>

\* ASTDiffAnalyzer.analyze_directory_changes
analyze_directory_changes(registry, old_root, new_root, file_patterns) ==
    VisitPatterns(NothingVisited, registry, old_root, new_root,
                  IF file_patterns = None THEN DefaultPatterns ELSE file_patterns)

----------------------------------------------------------------------------
(* The statements the two files are written from *)

Self == <<"self">>
NameC == <<"C">>
NameD == <<"D">>
NameF == <<"f">>
NameG == <<"g">>
NameM == <<"m">>
NameQ == <<"q">>

\* def name(args): pass
Def(name, args) == FunctionDef(name, args, 0, None, None, None, <<>>)

\* def f(a, b): pass
S_f == Def(NameF, << <<"a">>, <<"b">> >>)
\* def f(a, c): pass
S_f_renamed == Def(NameF, << <<"a">>, <<"c">> >>)
\* def f(b, a): pass
S_f_reordered == Def(NameF, << <<"b">>, <<"a">> >>)
\* def f(a, b, c=0): pass
S_f_added == FunctionDef(NameF, << <<"a">>, <<"b">>, <<"c">> >>, 1, None, None, None, <<>>)
\* def f(a, b) -> int: pass
S_f_int == FunctionDef(NameF, << <<"a">>, <<"b">> >>, 0, None, None, <<"int">>, <<>>)
\* def f(a, b) -> str: pass
S_f_str == FunctionDef(NameF, << <<"a">>, <<"b">> >>, 0, None, None, <<"str">>, <<>>)
\* def g(a, *args, **kw):
\*     def inner(b): pass
\*     v = 1
S_g == FunctionDef(NameG, << <<"a">> >>, 0, <<"args">>, <<"kw">>, None, << Def(<<"inner">>, << <<"b">> >>), Assign(<< <<"v">> >>, "Constant", <<"1">>) >>)
\* def _h(a): pass
S_h == Def(<<"_", "h">>, << <<"a">> >>)
\* class C:
\*     def m(self, a): pass
S_C == ClassDef(NameC, <<>>, << Def(NameM, <<Self, <<"a">> >>) >>)
\* class C(Base):
\*     def m(self, a): pass
S_C_Base == ClassDef(NameC, << <<"Base">> >>, << Def(NameM, <<Self, <<"a">> >>) >>)
\* class C(Base, Mixin):
\*     def m(self, a): pass
S_C_Base_Mixin == ClassDef(NameC, << <<"Base">>, <<"Mixin">> >>, << Def(NameM, <<Self, <<"a">> >>) >>)
\* class C(Mixin, Base):
\*     def m(self, a): pass
S_C_Mixin_Base == ClassDef(NameC, << <<"Mixin">>, <<"Base">> >>, << Def(NameM, <<Self, <<"a">> >>) >>)
\* class C:
\*     def m(self, b, *args): pass
\*     def n(self): pass
\*     def _p(self): pass
\*     y = 2
S_C_edited == ClassDef(NameC, <<>>, << FunctionDef(NameM, <<Self, <<"b">> >>, 0, <<"args">>, None, None, <<>>), Def(<<"n">>, <<Self>>), Def(<<"_", "p">>, <<Self>>), Assign(<< <<"y">> >>, "Constant", <<"2">>) >>)
\* class D:
\*     def f(self): pass
S_D == ClassDef(NameD, <<>>, << Def(NameF, <<Self>>) >>)
\* class _P:
\*     def q(self): pass
S_P == ClassDef(<<"_", "P">>, <<>>, << Def(NameQ, <<Self>>) >>)
\* x = _y = 1
S_assign == Assign(<< <<"x">>, <<"_", "y">> >>, "Constant", <<"1">>)
\* x = w = []
S_assign_list == Assign(<< <<"x">>, <<"w">> >>, "List", None)
\* import _thread
S_import == Import(<< <<"_", "thread">> >>)
\* from os import path
S_from == ImportFrom(<<"os">>, << <<"path">> >>)

Pool ==
    {S_f, S_f_renamed, S_f_reordered, S_f_added, S_f_int, S_f_str, S_g, S_h,
     S_C, S_C_Base, S_C_Base_Mixin, S_C_Mixin_Base, S_C_edited, S_D, S_P,
     S_assign, S_assign_list, S_import, S_from}

----------------------------------------------------------------------------
(* ASTDiffAnalyzer.analyze_breaking_changes on the two files *)

\* no report made and no file written yet
OutIdle == report = None /\ output_file = JNull

Init ==
    /\ \E k1 \in 0..MaxStmts : \E k2 \in 0..(MaxStmts - k1) :
          /\ old_src \in [1..k1 -> Pool]
          /\ new_src \in [1..k2 -> Pool]
    /\ old_api = EmptyApi
    /\ new_api = EmptyApi
    /\ changes = <<>>
    /\ pc = "parse"
    /\ OutIdle
    /\ TreeIdle
    /\ returned = <<>>

\* parse_file and extract_public_api of both files
Extract ==
    /\ pc = "parse"
    /\ old_api' = extract_public_api(parse_file(old_src))
    /\ new_api' = extract_public_api(parse_file(new_src))
    /\ pc' = "compare"
    /\ UNCHANGED <<old_src, new_src, changes, out_vars, tree_vars, returned>>

\* changes = analyzer.compare_apis(old_api, new_api)
Compare ==
    /\ pc = "compare"
    /\ LET r == compare_apis([old |-> old_api, new |-> new_api], "old", "new")
       IN  /\ changes' = r.changes
           /\ old_api' = r.heap.old
           /\ new_api' = r.heap.new
    /\ pc' = "done"
    /\ UNCHANGED <<old_src, new_src, out_vars, tree_vars, returned>>

Next == Extract \/ Compare

Spec == Init /\ [][Next]_vars

----------------------------------------------------------------------------
(* Vocabulary of the properties *)

\* the surfaces as extracted from the two files, before any comparison
ExtractedOld == extract_public_api(parse_file(old_src))
ExtractedNew == extract_public_api(parse_file(new_src))

\* the set of keys of a mapping
KeySet(d) == {d[i].k : i \in 1..Len(d)}

\* the text "<Noun> '<name>'<what>"
Text(noun, name, what) == <<noun, " '">> \o name \o <<"'", what>>

\* the indices of the changes of a kind whose description is the given text
ChangesWith(kind, text) ==
    {i \in 1..Len(changes) : changes[i].change_type = kind /\ changes[i].description = text}

\* t occurs in s
Contains(s, t) == \E i \in 1..(Len(s) - Len(t) + 1) : SubSeq(s, i, i + Len(t) - 1) = t

\* the names of the public functions a file defines at its top level
TopLevelFunctions(src) ==
    {src[i].name : i \in {j \in 1..Len(src) : src[j].type = "FunctionDef" /\ ~startswith_underscore(src[j].name)}}

\* the canonical signature string of the spec,
\* name(p1, ..., *varPositional, **varKeyword) -> returnType,
\* of a function with the given parameters
Canonical(name, parameters, varPositional, varKeyword, returnType) ==
    LET variadics == (IF varPositional = None THEN <<>> ELSE << <<"*">> \o varPositional >>)
                     \o (IF varKeyword = None THEN <<>> ELSE << <<"**">> \o varKeyword >>)
        all == parameters \o variadics
        list == [i \in 1..(2 * Len(all) - 1) |-> IF i % 2 = 1 THEN all[(i + 1) \div 2] ELSE <<", ">>]
        RECURSIVE Flat(_)
        Flat(q) == IF q = <<>> THEN <<>> ELSE Head(q) \o Flat(Tail(q))
    IN  name \o <<"(">> \o (IF all = <<>> THEN <<>> ELSE Flat(list)) \o <<")">>
             \o (IF returnType = None THEN <<>> ELSE <<" -> ">> \o returnType)

\* the canonical signature string of a FunctionInfo or of a declaration
CanonicalOf(f) == Canonical(f.name, f.args, f.vararg, f.kwarg, f.returns)

----------------------------------------------------------------------------
(* C1: when a public function is defined in the old file and not in the    *)
(* new file, the returned list holds exactly one FunctionRemoved change,   *)
(* of severity Breaking, for that name and no FunctionAdded change for it. *)
C1_RemovedFunctionReportedOnce ==
    pc = "done" =>
        \A name \in TopLevelFunctions(old_src) \ TopLevelFunctions(new_src) :
            /\ Cardinality(ChangesWith(FUNCTION_REMOVED, Text("Function", name, " was removed"))) = 1
            /\ \A i \in ChangesWith(FUNCTION_REMOVED, Text("Function", name, " was removed")) :
                   changes[i].severity = BREAKING
            /\ ChangesWith(FUNCTION_ADDED, Text("Function", name, " was added")) = {}

(* C2: for every name in both old.functions and new.functions the function *)
(* comparison emits one FunctionSignatureChanged/Breaking change when the   *)
(* canonical signature strings of the two FunctionInfo differ, and no       *)
(* change at all for that function when they are identical.                 *)
C2_SignatureChangedIffCanonicalDiffers ==
    pc = "done" =>
        \A name \in KeySet(ExtractedOld.functions) \cap KeySet(ExtractedNew.functions) :
            LET old_sig == CanonicalOf(DictGet(ExtractedOld.functions, name))
                new_sig == CanonicalOf(DictGet(ExtractedNew.functions, name))
                hits == ChangesWith(FUNCTION_SIGNATURE_CHANGED, Text("Function", name, " signature changed"))
            IN  /\ Cardinality(hits) = (IF old_sig # new_sig THEN 1 ELSE 0)
                /\ \A i \in hits : changes[i].severity = BREAKING
                /\ ChangesWith(FUNCTION_REMOVED, Text("Function", name, " was removed")) = {}
                /\ ChangesWith(FUNCTION_ADDED, Text("Function", name, " was added")) = {}

\* a function in both surfaces, variadic in the new one, whose signature changed
C2_Witness ==
    /\ pc = "done"
    /\ \E name \in KeySet(ExtractedOld.functions) \cap KeySet(ExtractedNew.functions) :
          /\ DictGet(ExtractedNew.functions, name).vararg # None
          /\ CanonicalOf(DictGet(ExtractedOld.functions, name)) # CanonicalOf(DictGet(ExtractedNew.functions, name))
          /\ ChangesWith(FUNCTION_SIGNATURE_CHANGED, Text("Function", name, " signature changed")) # {}

----------------------------------------------------------------------------
(* Two files that differ by one edit of the declaration of f: the same     *)
(* statements around it (none of them a top-level f) in both files.        *)

\* statements around the edited declaration
MaxContext == 1

FVariants == {S_f, S_f_renamed, S_f_reordered, S_f_added, S_f_int, S_f_str}

\* a parameter renamed, a parameter added (with a default), the parameters
\* reordered, a return annotation added, a return annotation changed
Edits ==
    {<<S_f, S_f_renamed>>, <<S_f, S_f_added>>, <<S_f, S_f_reordered>>,
     <<S_f, S_f_int>>, <<S_f_int, S_f_str>>}

\* s with x inserted after its first p elements
InsertAt(s, p, x) == SubSeq(s, 1, p) \o <<x>> \o SubSeq(s, p + 1, Len(s))

InitEdit ==
    /\ \E k \in 0..MaxContext : \E context \in [1..k -> Pool \ FVariants] :
       \E p \in 0..k : \E e \in Edits :
          /\ old_src = InsertAt(context, p, e[1])
          /\ new_src = InsertAt(context, p, e[2])
    /\ old_api = EmptyApi
    /\ new_api = EmptyApi
    /\ changes = <<>>
    /\ pc = "parse"
    /\ OutIdle
    /\ TreeIdle
    /\ returned = <<>>

SpecEdit == InitEdit /\ [][Next]_vars

(* C3: for a function present in both files, renaming a parameter, adding  *)
(* a parameter, reordering the parameters, or adding or changing the       *)
(* return annotation, each alone, yields exactly one                        *)
(* FunctionSignatureChanged/Breaking change, whose oldSignature and         *)
(* newSignature are the canonical strings of the old and new declaration.   *)
C3_SingleEditReportedOnce ==
    pc = "done" =>
        \A i \in 1..Len(old_src) :
            (old_src[i] \in FVariants /\ old_src[i] # new_src[i]) =>
                LET hits == ChangesWith(FUNCTION_SIGNATURE_CHANGED, Text("Function", old_src[i].name, " signature changed"))
                IN  /\ Cardinality(hits) = 1
                    /\ \A h \in hits :
                          /\ changes[h].severity = BREAKING
                          /\ changes[h].old_signature = CanonicalOf(old_src[i])
                          /\ changes[h].new_signature = CanonicalOf(new_src[i])

\* the same, for the files in which no method or nested function is named
\* like the edited function
C3_HoldsWithoutHomonym ==
    (\A i \in 1..Len(old_src) : old_src[i] # S_D) => C3_SingleEditReportedOnce

----------------------------------------------------------------------------
\* the names of the classes present in both extracted surfaces
CommonClassNames == KeySet(ExtractedOld.classes) \cap KeySet(ExtractedNew.classes)

\* the text "<prefix> '<name>'<what>"
TextP(prefix, name, what) == prefix \o <<" '">> \o name \o <<"'", what>>

\* how the description of a change of a method of class c begins
MethodPrefix(c) == <<"Method in class '">> \o c \o <<"'">>

FunctionKinds == {FUNCTION_REMOVED, FUNCTION_ADDED, FUNCTION_SIGNATURE_CHANGED}
MethodKinds == {METHOD_REMOVED, METHOD_ADDED, METHOD_SIGNATURE_CHANGED}

\* the number of changes of a kind
CountKind(kind) == Cardinality({i \in 1..Len(changes) : changes[i].change_type = kind})

(* C4: every change the class comparison derives from the methods of a     *)
(* class present in both surfaces has a Method kind (Removed ->            *)
(* MethodRemoved, Added -> MethodAdded, SignatureChanged ->                 *)
(* MethodSignatureChanged), never a Function kind, and its description      *)
(* contains the name of the owning class.                                   *)
C4_MethodChangesCarryMethodKinds ==
    pc = "done" =>
        /\ \A c \in CommonClassNames :
              LET om == DictGet(ExtractedOld.classes, c).methods
                  nm == DictGet(ExtractedNew.classes, c).methods
              IN  /\ \A k \in KeySet(om) \ KeySet(nm) :
                        Cardinality(ChangesWith(METHOD_REMOVED, TextP(MethodPrefix(c), k, " was removed"))) = 1
                  /\ \A k \in KeySet(nm) \ KeySet(om) :
                        Cardinality(ChangesWith(METHOD_ADDED, TextP(MethodPrefix(c), k, " was added"))) = 1
                  /\ \A k \in KeySet(om) \cap KeySet(nm) :
                        Cardinality(ChangesWith(METHOD_SIGNATURE_CHANGED, TextP(MethodPrefix(c), k, " signature changed")))
                            = (IF CanonicalOf(DictGet(om, k)) # CanonicalOf(DictGet(nm, k)) THEN 1 ELSE 0)
        \* no change of a Function kind beyond those of the function comparison
        /\ CountKind(FUNCTION_REMOVED)
              = Cardinality(KeySet(ExtractedOld.functions) \ KeySet(ExtractedNew.functions))
        /\ CountKind(FUNCTION_ADDED)
              = Cardinality(KeySet(ExtractedNew.functions) \ KeySet(ExtractedOld.functions))
        /\ CountKind(FUNCTION_SIGNATURE_CHANGED)
              = Cardinality({k \in KeySet(ExtractedOld.functions) \cap KeySet(ExtractedNew.functions) :
                               CanonicalOf(DictGet(ExtractedOld.functions, k)) # CanonicalOf(DictGet(ExtractedNew.functions, k))})
        /\ \A i \in 1..Len(changes) :
              changes[i].change_type \in MethodKinds =>
                  \E c \in CommonClassNames : Contains(changes[i].description, MethodPrefix(c))

\* a class in both files with a method removed and a method changed
C4_Witness ==
    /\ pc = "done"
    /\ CountKind(METHOD_REMOVED) > 0
    /\ CountKind(METHOD_SIGNATURE_CHANGED) > 0

\* the elements of a sequence
Elems(q) == {q[i] : i \in 1..Len(q)}

(* C5: for every class present in both surfaces a                           *)
(* ClassInheritanceChanged/Breaking change carrying the old and new base    *)
(* lists is emitted iff the two base sequences differ element-wise (a pure  *)
(* reordering counts); when only the bases of the one class of a file       *)
(* change, as from `class C` to `class C(Base)` with the same method m,     *)
(* the returned list is that one change, with new bases ["Base"].           *)
C5_InheritanceChangedIffBasesDiffer ==
    pc = "done" =>
        /\ \A c \in CommonClassNames :
              LET ob == DictGet(ExtractedOld.classes, c).bases
                  nb == DictGet(ExtractedNew.classes, c).bases
                  hits == ChangesWith(CLASS_INHERITANCE_CHANGED, Text("Class", c, " inheritance changed"))
              IN  /\ Cardinality(hits) = (IF ob # nb THEN 1 ELSE 0)
                  /\ \A h \in hits :
                        /\ changes[h].severity = BREAKING
                        /\ changes[h].additional_info = [is_none |-> FALSE, old_bases |-> ob, new_bases |-> nb]
        /\ (/\ Len(old_src) = 1 /\ Len(new_src) = 1
            /\ old_src[1].type = "ClassDef" /\ new_src[1].type = "ClassDef"
            /\ ~startswith_underscore(old_src[1].name)
            /\ old_src[1].name = new_src[1].name /\ old_src[1].body = new_src[1].body
            /\ old_src[1].bases # new_src[1].bases)
           => /\ Len(changes) = 1
              /\ changes[1].change_type = CLASS_INHERITANCE_CHANGED
              /\ changes[1].additional_info.new_bases = new_src[1].bases
        /\ (old_src = <<S_C>> /\ new_src = <<S_C_Base>>)
           => changes[1].additional_info.new_bases = << <<"Base">> >>

\* the bases of a class present in both files reordered, and reported
C5_Witness ==
    /\ pc = "done"
    /\ \E c \in CommonClassNames :
          /\ DictGet(ExtractedOld.classes, c).bases # DictGet(ExtractedNew.classes, c).bases
          /\ Elems(DictGet(ExtractedOld.classes, c).bases) = Elems(DictGet(ExtractedNew.classes, c).bases)
          /\ ChangesWith(CLASS_INHERITANCE_CHANGED, Text("Class", c, " inheritance changed")) # {}

----------------------------------------------------------------------------
(* The order of the returned list, written from the key orders of the      *)
(* extracted surfaces.  A label is the kind and the description of a       *)
(* change.                                                                 *)

Labels(q) == [i \in 1..Len(q) |-> <<q[i].change_type, q[i].description>>]

\* the keys of old absent from new, in the key order of old
RemovedKeys(old, new) ==
    LET Gone(k) == k \notin KeySet(new) IN SelectSeq(DictKeys(old), Gone)

\* the keys of new absent from old, in the key order of new
AddedKeys(old, new) ==
    LET Fresh(k) == k \notin KeySet(old) IN SelectSeq(DictKeys(new), Fresh)

\* the keys of both whose canonical signatures differ, in the key order of old
ModifiedKeys(old, new) ==
    LET Changed(k) == /\ k \in KeySet(new)
                      /\ CanonicalOf(DictGet(old, k)) # CanonicalOf(DictGet(new, k))
    IN  SelectSeq(DictKeys(old), Changed)

\* the keys of both, in the key order of old
CommonKeys(old, new) ==
    LET Kept(k) == k \in KeySet(new) IN SelectSeq(DictKeys(old), Kept)

LabelsFor(keys, kind, prefix, what) ==
    [i \in 1..Len(keys) |-> <<kind, TextP(prefix, keys[i], what)>>]

\* removals, then additions, then modifications of a mapping of functions
FunctionOrder(old, new, prefix, removed, added, modified) ==
    LabelsFor(RemovedKeys(old, new), removed, prefix, " was removed")
    \o LabelsFor(AddedKeys(old, new), added, prefix, " was added")
    \o LabelsFor(ModifiedKeys(old, new), modified, prefix, " signature changed")

\* removals, then additions of a mapping without modification detection
EntryOrder(old, new, noun, removed, added) ==
    LabelsFor(RemovedKeys(old, new), removed, <<noun>>, " was removed")
    \o LabelsFor(AddedKeys(old, new), added, <<noun>>, " was added")

\* the modifications of one class present in both surfaces: its inheritance
\* change, then its method changes
ClassModifications(c) ==
    LET oc == DictGet(ExtractedOld.classes, c)
        nc == DictGet(ExtractedNew.classes, c)
    IN  (IF oc.bases # nc.bases
         THEN << <<CLASS_INHERITANCE_CHANGED, Text("Class", c, " inheritance changed")>> >>
         ELSE <<>>)
        \o FunctionOrder(oc.methods, nc.methods, MethodPrefix(c), METHOD_REMOVED, METHOD_ADDED, METHOD_SIGNATURE_CHANGED)

RECURSIVE PerClass(_)
PerClass(cs) == IF cs = <<>> THEN <<>> ELSE ClassModifications(Head(cs)) \o PerClass(Tail(cs))

FunctionCategory ==
    FunctionOrder(ExtractedOld.functions, ExtractedNew.functions, <<"Function">>, FUNCTION_REMOVED, FUNCTION_ADDED, FUNCTION_SIGNATURE_CHANGED)
ClassCategory ==
    EntryOrder(ExtractedOld.classes, ExtractedNew.classes, "Class", CLASS_REMOVED, CLASS_ADDED)
    \o PerClass(CommonKeys(ExtractedOld.classes, ExtractedNew.classes))
VariableCategory ==
    EntryOrder(ExtractedOld.variables, ExtractedNew.variables, "Variable", VARIABLE_REMOVED, VARIABLE_ADDED)
ImportCategory ==
    EntryOrder(ExtractedOld.imports, ExtractedNew.imports, "Import", IMPORT_REMOVED, IMPORT_ADDED)

\* 1: function, 2: class (methods included), 3: variable, 4: import
CategoryOf(kind) ==
    IF kind \in FunctionKinds THEN 1
    ELSE IF kind \in MethodKinds \cup {CLASS_REMOVED, CLASS_ADDED, CLASS_INHERITANCE_CHANGED} THEN 2
    ELSE IF kind \in {VARIABLE_REMOVED, VARIABLE_ADDED} THEN 3
    ELSE 4

\* 1: a removal, 2: an addition, 3: a modification
PhaseOf(kind) ==
    IF kind \in {FUNCTION_REMOVED, CLASS_REMOVED, METHOD_REMOVED, VARIABLE_REMOVED, IMPORT_REMOVED} THEN 1
    ELSE IF kind \in {FUNCTION_ADDED, CLASS_ADDED, METHOD_ADDED, VARIABLE_ADDED, IMPORT_ADDED} THEN 2
    ELSE 3

\* the labels of the changes of one category, in the order of the list
CategoryPart(n) ==
    LET InCategory(l) == CategoryOf(l[1]) = n IN SelectSeq(Labels(changes), InCategory)

----------------------------------------------------------------------------
\* the severity the rules of the diff engine give to each kind
SeverityOf(kind) ==
    IF kind \in {FUNCTION_REMOVED, FUNCTION_SIGNATURE_CHANGED, METHOD_REMOVED,
                 METHOD_SIGNATURE_CHANGED, CLASS_REMOVED, CLASS_INHERITANCE_CHANGED,
                 VARIABLE_REMOVED} THEN BREAKING
    ELSE IF kind \in {FUNCTION_ADDED, METHOD_ADDED, CLASS_ADDED, VARIABLE_ADDED} THEN COMPATIBLE
    ELSE IF kind \in {IMPORT_REMOVED, IMPORT_ADDED} THEN INTERNAL
    ELSE Member("SeverityLevel", "", "")

(* C7: in every returned list the severity is a function of the kind:      *)
(* Removed, SignatureChanged and InheritanceChanged kinds of functions,    *)
(* methods, classes and variables are Breaking, their Added kinds are      *)
(* Compatible, ImportRemoved and ImportAdded are Internal, and no change   *)
(* has severity Patch.                                                     *)
C7_SeverityIsFunctionOfKind ==
    \A i \in 1..Len(changes) :
        /\ changes[i].severity = SeverityOf(changes[i].change_type)
        /\ changes[i].severity # PATCH

\* a list with an Internal change of an import and a Compatible addition
C7_Witness ==
    /\ pc = "done"
    /\ \E i, j \in 1..Len(changes) :
          /\ changes[i].change_type = IMPORT_REMOVED /\ changes[i].severity = INTERNAL
          /\ changes[j].change_type = FUNCTION_ADDED /\ changes[j].severity = COMPATIBLE

(* C8: compare_apis has no side effect: after it returns, both surfaces,   *)
(* with every parameter sequence of every function and method, are what    *)
(* they were before the call.                                              *)
C8_CompareLeavesSurfacesUnchanged ==
    [][pc = "compare" => (old_api' = old_api /\ new_api' = new_api)]_vars

\* the names of the public classes a file defines at its top level
TopLevelClasses(src) ==
    {src[i].name : i \in {j \in 1..Len(src) : src[j].type = "ClassDef" /\ ~startswith_underscore(src[j].name)}}

\* the public names a file assigns at module level
ModuleLevelVariables(src) ==
    UNION {{t \in Elems(src[i].targets) : ~startswith_underscore(t)} :
             i \in {j \in 1..Len(src) : src[j].type = "Assign"}}

(* C9: the extracted surface holds in `functions` only the public          *)
(* functions defined at the top level of the module, in `classes` only     *)
(* top-level classes and in `variables` only module-level assignments; so  *)
(* removing a public method from a class yields no FunctionRemoved change  *)
(* beside its MethodRemoved change.                                        *)
C9_SurfaceHoldsTopLevelOnly ==
    /\ pc = "compare" =>
          /\ KeySet(old_api.functions) \subseteq TopLevelFunctions(old_src)
          /\ KeySet(new_api.functions) \subseteq TopLevelFunctions(new_src)
          /\ KeySet(old_api.classes) \subseteq TopLevelClasses(old_src)
          /\ KeySet(new_api.classes) \subseteq TopLevelClasses(new_src)
          /\ KeySet(old_api.variables) \subseteq ModuleLevelVariables(old_src)
          /\ KeySet(new_api.variables) \subseteq ModuleLevelVariables(new_src)
    /\ pc = "done" =>
          \A c \in CommonClassNames :
              \A k \in KeySet(DictGet(ExtractedOld.classes, c).methods)
                        \ KeySet(DictGet(ExtractedNew.classes, c).methods) :
                  k \notin TopLevelFunctions(old_src) =>
                      ChangesWith(FUNCTION_REMOVED, Text("Function", k, " was removed")) = {}

\* the keys of the mappings of a surface, the methods of its classes included
SurfaceKeys(api) ==
    KeySet(api.functions) \cup KeySet(api.classes) \cup KeySet(api.variables)
    \cup KeySet(api.imports)
    \cup UNION {KeySet(api.classes[i].v.methods) : i \in 1..Len(api.classes)}

(* C10: no key of a mapping of an extracted surface (functions, classes,   *)
(* methods of a class, variables, imports) starts with an underscore, and  *)
(* no change refers to an entity whose name starts with an underscore.     *)
C10_NoUnderscoreName ==
    /\ \A k \in SurfaceKeys(old_api) \cup SurfaceKeys(new_api) : ~startswith_underscore(k)
    /\ \A i \in 1..Len(changes) : ~Contains(changes[i].description, <<" '", "_">>)

\* the same, the imports left aside
C10_HoldsButForImports ==
    /\ \A k \in (SurfaceKeys(old_api) \ KeySet(old_api.imports))
                 \cup (SurfaceKeys(new_api) \ KeySet(new_api.imports)) :
          ~startswith_underscore(k)
    /\ \A i \in 1..Len(changes) :
          changes[i].change_type \notin {IMPORT_REMOVED, IMPORT_ADDED} =>
              ~Contains(changes[i].description, <<" '", "_">>)

----------------------------------------------------------------------------
\* the kinds of change that are about a variable
VariableKinds == {VARIABLE_REMOVED, VARIABLE_TYPE_CHANGED, VARIABLE_ADDED, CONSTANT_VALUE_CHANGED}

\* the indices of the changes of a variable kind that name the variable
VariableChangesOf(name) ==
    {i \in 1..Len(changes) :
        /\ changes[i].change_type \in VariableKinds
        /\ Contains(changes[i].description, <<"Variable", " '">> \o name \o <<"'">>)}

----------------------------------------------------------------------------
\* the kinds by event
RemovedKinds == {FUNCTION_REMOVED, METHOD_REMOVED, CLASS_REMOVED, VARIABLE_REMOVED, IMPORT_REMOVED}
AddedKinds == {FUNCTION_ADDED, METHOD_ADDED, CLASS_ADDED, VARIABLE_ADDED, IMPORT_ADDED}
SignatureChangedKinds == {FUNCTION_SIGNATURE_CHANGED, METHOD_SIGNATURE_CHANGED}

\* an Optional[str] field holds a str
Present(field) == field # None

(* C12, as claimed: in every change a signature is present only if the     *)
(* kind is FunctionSignatureChanged or MethodSignatureChanged; removed,    *)
(* added and inheritance-changed kinds carry neither signature.            *)
C12_SignaturesOnlyOnSignatureChanged ==
    \A i \in 1..Len(changes) :
        (Present(changes[i].old_signature) \/ Present(changes[i].new_signature))
            => changes[i].change_type \in SignatureChangedKinds

(* C12, amended: in every change old_signature is present exactly for the  *)
(* kinds FunctionRemoved, MethodRemoved, FunctionSignatureChanged and      *)
(* MethodSignatureChanged, and new_signature exactly for FunctionAdded,    *)
(* MethodAdded, FunctionSignatureChanged and MethodSignatureChanged; the   *)
(* changes of classes, variables and imports carry neither.                *)
C12_SignaturesOnFunctionAndMethodKinds ==
    \A i \in 1..Len(changes) :
        /\ Present(changes[i].old_signature)
              <=> changes[i].change_type \in {FUNCTION_REMOVED, METHOD_REMOVED} \cup SignatureChangedKinds
        /\ Present(changes[i].new_signature)
              <=> changes[i].change_type \in {FUNCTION_ADDED, METHOD_ADDED} \cup SignatureChangedKinds

\* a removed function reported with its old signature, beside a change
\* of a class, a variable or an import, which has none
C12_Witness ==
    /\ pc = "done"
    /\ \E i, j \in 1..Len(changes) :
          /\ changes[i].change_type = FUNCTION_REMOVED
          /\ Present(changes[i].old_signature) /\ ~Present(changes[i].new_signature)
          /\ changes[j].change_type \notin FunctionKinds \cup MethodKinds
          /\ ~Present(changes[j].old_signature) /\ ~Present(changes[j].new_signature)

(* C13: in every change at least one location is present: removed kinds    *)
(* carry old_location only, added kinds new_location only, and             *)
(* signature-changed and inheritance-changed kinds carry both.             *)
C13_LocationsByKind ==
    \A i \in 1..Len(changes) :
        /\ Present(changes[i].old_location) \/ Present(changes[i].new_location)
        /\ changes[i].change_type \in RemovedKinds
              => Present(changes[i].old_location) /\ ~Present(changes[i].new_location)
        /\ changes[i].change_type \in AddedKinds
              => ~Present(changes[i].old_location) /\ Present(changes[i].new_location)
        /\ changes[i].change_type \in SignatureChangedKinds \cup {CLASS_INHERITANCE_CHANGED}
              => Present(changes[i].old_location) /\ Present(changes[i].new_location)
        /\ changes[i].change_type \in RemovedKinds \cup AddedKinds \cup SignatureChangedKinds
                                        \cup {CLASS_INHERITANCE_CHANGED}

\* a list with a removal and a modification, each with its locations
C13_Witness ==
    /\ pc = "done"
    /\ \E i, j \in 1..Len(changes) :
          /\ changes[i].change_type \in RemovedKinds
          /\ changes[i].old_location = line_str(1)
          /\ changes[j].change_type \in SignatureChangedKinds \cup {CLASS_INHERITANCE_CHANGED}
          /\ Present(changes[j].old_location) /\ Present(changes[j].new_location)

----------------------------------------------------------------------------
(* generate_report and export_results on lists of changes: the lists       *)
(* returned by the diff engine and lists built by a caller.                *)

\* the longest list of changes
MaxChanges == 3

\* the canonical strings f(a, b) and f(a, c)
Sig_f_ab == SignatureText(NameF, << <<"a">>, <<"b">> >>, None)
Sig_f_ac == SignatureText(NameF, << <<"a">>, <<"c">> >>, None)

\* changes as the diff engine builds them, and one change of severity
\* Patch with no optional field, as a caller can build it
ChangePool ==
    {FunctionRemovedChange(NameF, 1, Sig_f_ab),
     FunctionAddedChange(NameG, 2, SignatureText(NameG, << <<"a">> >>, <<"int">>)),
     FunctionSignatureChange(NameF, 1, 3, Sig_f_ab, Sig_f_ac),
     InheritanceChange(NameC, [lineno |-> 1, bases |-> <<>>], [lineno |-> 2, bases |-> << <<"Base">> >>]),
     CodeChange(IMPORT_REMOVED, INTERNAL, Text("Import", <<"os">>, " was removed"), line_str(1), None, None, None, NoInfo),
     CodeChange(DECORATOR_ADDED, PATCH, <<"Decorator", " '", "cache", "'", " was added">>, None, None, None, None, NoInfo)}

InitReport ==
    /\ \E n \in 0..MaxChanges : changes \in [1..n -> ChangePool]
    /\ old_src = <<>>
    /\ new_src = <<>>
    /\ old_api = EmptyApi
    /\ new_api = EmptyApi
    /\ pc = "done"
    /\ OutIdle
    /\ TreeIdle
    /\ returned = <<>>

\* report = analyzer.generate_report(changes)
GenerateReport ==
    /\ pc = "done"
    /\ report' = generate_report(changes)
    /\ pc' = "reported"
    /\ UNCHANGED <<old_src, new_src, old_api, new_api, changes, output_file, tree_vars, returned>>

\* analyzer.export_results(changes, output_file)
ExportResults ==
    /\ pc = "reported"
    /\ output_file' = export_results(changes)
    /\ pc' = "exported"
    /\ UNCHANGED <<old_src, new_src, old_api, new_api, changes, report, tree_vars, returned>>

NextReport == GenerateReport \/ ExportResults

SpecReport == InitReport /\ [][NextReport]_vars

(* json.load on a file written by export_results *)

\* json decoding of null or a string
LoadOptionalStr(j) == IF j.json = "null" THEN None ELSE j.chars

\* json decoding of an array of strings
LoadStrList(j) == [i \in 1..Len(j.items) |-> j.items[i].chars]

\* json decoding of null or of the object of the two base lists
LoadInfo(j) ==
    IF j.json = "null" THEN NoInfo
    ELSE [is_none |-> FALSE,
          old_bases |-> LoadStrList(DictGet(j.members, <<"old_bases">>)),
          new_bases |-> LoadStrList(DictGet(j.members, <<"new_bases">>))]

\* json decoding of one member of a change object
LoadField(item) ==
    IF item.k = <<"additional_info">> THEN LoadInfo(item.v) ELSE LoadOptionalStr(item.v)

\* json decoding of a change object: the dict from_dict takes
LoadDict(j) == [i \in 1..Len(j.members) |-> [k |-> j.members[i].k, v |-> LoadField(j.members[i])]]

\* the list read back from the file: each element of the array decoded and
\* passed to from_dict
Reloaded == [i \in 1..Len(output_file.items) |-> from_dict(LoadDict(output_file.items[i]))]

\* the member of a JSON object under a key
MemberOf(j, key) == DictGet(j.members, <<key>>)

(* C14: serialization round-trips.  For every change c,                    *)
(* from_dict(to_dict(c)) equals c; kind and severity are serialized as     *)
(* their value strings, which are the lowercase tags, and an absent        *)
(* optional field as null; the list decoded from the exported array        *)
(* equals the exported list, in the same order.                            *)
C14_SerializationRoundTrips ==
    pc = "exported" =>
        /\ \A i \in 1..Len(changes) :
              /\ from_dict(to_dict(changes[i])) = changes[i]
              /\ MemberOf(output_file.items[i], "change_type") = JString(changes[i].change_type.value)
              /\ MemberOf(output_file.items[i], "severity") = JString(changes[i].severity.value)
              /\ changes[i].change_type = FUNCTION_REMOVED
                    => MemberOf(output_file.items[i], "change_type") = JString(<<"function_removed">>)
              /\ changes[i].severity = BREAKING
                    => MemberOf(output_file.items[i], "severity") = JString(<<"breaking">>)
              /\ \A key \in {"old_location", "new_location", "old_signature", "new_signature"} :
                    ~Present(get(to_dict(changes[i]), key))
                        <=> MemberOf(output_file.items[i], key) = JNull
              /\ changes[i].additional_info.is_none
                    <=> MemberOf(output_file.items[i], "additional_info") = JNull
        /\ output_file.json = "array"
        /\ Reloaded = changes

\* an exported list with a removed function (one location, one signature)
\* followed by an inheritance change (additional_info present)
C14_Witness ==
    /\ pc = "exported"
    /\ Len(changes) >= 2
    /\ changes[1].change_type = FUNCTION_REMOVED
    /\ changes[2].change_type = CLASS_INHERITANCE_CHANGED
    /\ ~changes[2].additional_info.is_none
    /\ Reloaded = changes

----------------------------------------------------------------------------
(* The report, read line by line *)

RECURSIVE SplitLines(_)
\* report.split("\n")
SplitLines(s) ==
    IF \A i \in 1..Len(s) : s[i] # "\n" THEN <<s>>
    ELSE LET p == CHOOSE i \in 1..Len(s) : s[i] = "\n" /\ \A j \in 1..(i - 1) : s[j] # "\n"
         IN  <<SubSeq(s, 1, p - 1)>> \o SplitLines(SubSeq(s, p + 1, Len(s)))

ReportLines == SplitLines(report)

\* the line numbers of the header of a severity in the lines of a report
HeaderLines(lines, severity) == {i \in 1..Len(lines) : lines[i] = SeverityHeader(severity)}

\* the line numbers of the first line of the blocks of a change
BulletLines(lines, change) ==
    {i \in 1..Len(lines) : lines[i] = <<Bullet, " ">> \o change.description}

\* the lines of the block that starts at line i: up to the next empty line
BlockAt(lines, i) ==
    LET end == CHOOSE e \in i..Len(lines) :
                   lines[e] = <<>> /\ \A j \in i..(e - 1) : lines[j] # <<>>
    IN  {lines[j] : j \in i..(end - 1)}

\* the severities before / after a severity in the order Breaking,
\* Compatible, Patch, Internal
Rank(severity) == CHOOSE k \in 1..4 : <<BREAKING, COMPATIBLE, PATCH, INTERNAL>>[k] = severity

(* C19: generate_report on the empty list returns the no-changes string;   *)
(* on a non-empty list, in whatever order, there is one header for each    *)
(* severity that has a change and none for the others, the headers come    *)
(* in the order Breaking, Compatible, Patch, Internal, and every change is *)
(* listed once, after the header of its severity and before the next       *)
(* header.                                                                 *)
C19_ReportGroupsBySeverityInOrder ==
    pc \in {"reported", "exported"} =>
        LET lines == ReportLines IN
        /\ changes = <<>> => report = NoChangesReport
        /\ changes # <<>> =>
              /\ report # NoChangesReport
              /\ \A severity \in {BREAKING, COMPATIBLE, PATCH, INTERNAL} :
                    Cardinality(HeaderLines(lines, severity))
                        = IF \E i \in 1..Len(changes) : changes[i].severity = severity THEN 1 ELSE 0
              /\ \A s1, s2 \in {BREAKING, COMPATIBLE, PATCH, INTERNAL} :
                    Rank(s1) < Rank(s2)
                        => \A i \in HeaderLines(lines, s1), j \in HeaderLines(lines, s2) : i < j
              /\ \A i \in 1..Len(changes) :
                    /\ Cardinality(BulletLines(lines, changes[i]))
                          = Cardinality({j \in 1..Len(changes) : changes[j] = changes[i]})
                    /\ \A b \in BulletLines(lines, changes[i]) :
                          /\ \E h \in HeaderLines(lines, changes[i].severity) : h < b
                          /\ \A severity \in {BREAKING, COMPATIBLE, PATCH, INTERNAL} :
                                Rank(severity) > Rank(changes[i].severity)
                                    => \A h \in HeaderLines(lines, severity) : b < h

\* the report of a list given as Internal, Patch, Breaking
C19_Witness ==
    /\ pc = "reported"
    /\ Len(changes) = 3
    /\ changes[1].severity = INTERNAL
    /\ changes[2].severity = PATCH
    /\ changes[3].severity = BREAKING
    /\ HeaderLines(ReportLines, BREAKING) # {}
    /\ HeaderLines(ReportLines, COMPATIBLE) = {}

(* C20: in the report the block of each change has its description, a     *)
(* line for old_location if present, a line for new_location if present,  *)
(* a line for old_signature if present and a line for new_signature if    *)
(* present; a change with one signature only has that signature rendered. *)
C20_BlockRendersEveryPresentField ==
    pc \in {"reported", "exported"} =>
        LET lines == ReportLines IN
        \A i \in 1..Len(changes) :
            /\ BulletLines(lines, changes[i]) # {}
            /\ \A b \in BulletLines(lines, changes[i]) :
                  /\ Present(changes[i].old_location)
                        <=> (<<"  Old: ">> \o changes[i].old_location) \in BlockAt(lines, b)
                  /\ Present(changes[i].new_location)
                        <=> (<<"  New: ">> \o changes[i].new_location) \in BlockAt(lines, b)
                  /\ Present(changes[i].old_signature)
                        <=> (<<"  Old signature: ">> \o changes[i].old_signature) \in BlockAt(lines, b)
                  /\ Present(changes[i].new_signature)
                        <=> (<<"  New signature: ">> \o changes[i].new_signature) \in BlockAt(lines, b)

\* what C20 says about the description and the two locations
C20_HoldsForDescriptionAndLocations ==
    pc \in {"reported", "exported"} =>
        LET lines == ReportLines IN
        \A i \in 1..Len(changes) :
            /\ BulletLines(lines, changes[i]) # {}
            /\ \A b \in BulletLines(lines, changes[i]) :
                  /\ Present(changes[i].old_location)
                        <=> (<<"  Old: ">> \o changes[i].old_location) \in BlockAt(lines, b)
                  /\ Present(changes[i].new_location)
                        <=> (<<"  New: ">> \o changes[i].new_location) \in BlockAt(lines, b)
                  /\ (Present(changes[i].old_signature) /\ Present(changes[i].new_signature))
                        <=> (<<"  Old signature: ">> \o changes[i].old_signature) \in BlockAt(lines, b)
                  /\ (Present(changes[i].old_signature) /\ Present(changes[i].new_signature))
                        <=> (<<"  New signature: ">> \o changes[i].new_signature) \in BlockAt(lines, b)

----------------------------------------------------------------------------
(* Two directory trees, a registry that callers extend, and the two        *)
(* entry points of ASTDiffAnalyzer called on them.                         *)

MaxFiles == 2

Path_a == <<"pkg/", "a", ".py">>
Path_b == <<"pkg/", "b", ".py">>
Path_c == <<"c", ".pyi">>
Path_d == <<"d", ".PY">>

PathPool == {Path_a, Path_b, Path_c, Path_d}

\* def f(a, b): pass
GoodFile == [ok |-> TRUE, body |-> <<S_f>>]
\* def f(a, c): pass
ChangedFile == [ok |-> TRUE, body |-> <<S_f_renamed>>]
\* def f(a, b: pass
BadFile == [ok |-> FALSE, body |-> <<>>]
OldContents == {GoodFile, BadFile}
NewContents == {GoodFile, ChangedFile}

LanguagePool == {None, <<".py">>, <<".js">>}

Pattern_py == <<"*", ".py">>
Pattern_pyi == <<"*", ".pyi">>

PatternsPool == {None, <<Pattern_py>>, <<Pattern_pyi>>, <<Pattern_pyi, Pattern_py>>}

RegisterPool == {<<".pyi">>}

\* the directory with the given files at the given paths, the absent left out
Directory(paths, contents, absent) ==
    LET IsFile(i) == i \notin absent
        Kept == SelectSeq([i \in 1..Len(paths) |-> i], IsFile)
    IN  [j \in 1..Len(Kept) |-> [k |-> paths[Kept[j]], v |-> contents[Kept[j]]]]

InitTree ==
    /\ \E n \in 0..MaxFiles : \E paths \in [1..n -> PathPool] :
       \E old_contents \in [1..n -> OldContents] : \E new_contents \in [1..n -> NewContents] :
       \E only_old \in SUBSET (1..n) :
          /\ \A i, j \in 1..n : paths[i] = paths[j] => i = j
          /\ old_dir = Directory(paths, old_contents, {})
          /\ new_dir = Directory(paths, new_contents, only_old)
    /\ analyzers = DefaultAnalyzers
    /\ pair_call = NoPairCall
    /\ tree_call = NoTreeCall
    /\ old_src = <<>>
    /\ new_src = <<>>
    /\ old_api = EmptyApi
    /\ new_api = EmptyApi
    /\ changes = <<>>
    /\ pc = "idle"
    /\ OutIdle
    /\ returned = <<>>

\* analyzer.analyzers[language] = PythonAnalyzer(), by a caller
Register ==
    /\ pc = "idle"
    /\ \E language \in RegisterPool :
          /\ ~DictHas(analyzers, language)
          /\ analyzers' = DictSet(analyzers, language, "PythonAnalyzer")
    /\ UNCHANGED <<old_src, new_src, old_api, new_api, changes, pc, out_vars,
                   old_dir, new_dir, pair_call, tree_call, returned>>

\* analyzer.analyze_breaking_changes(old_dir/path, new_dir/path, language)
AnalyzeFilePair ==
    /\ pc = "idle"
    /\ \E i \in 1..Len(old_dir) : \E language \in LanguagePool :
          LET r == analyze_breaking_changes(analyzers, old_dir, new_dir, old_dir[i].k, language)
          IN  pair_call' = [called |-> TRUE, path |-> old_dir[i].k, language |-> language,
                            raised |-> r.raised, changes |-> r.changes, opened |-> r.opened]
    /\ pc' = "pair_done"
    /\ UNCHANGED <<old_src, new_src, old_api, new_api, changes, out_vars,
                   analyzers, old_dir, new_dir, tree_call, returned>>

\* analyzer.analyze_directory_changes(old_dir, new_dir, file_patterns)
AnalyzeDirectory ==
    /\ pc = "idle"
    /\ \E file_patterns \in PatternsPool :
          LET r == analyze_directory_changes(analyzers, old_dir, new_dir, file_patterns)
          IN  tree_call' = [called |-> TRUE, file_patterns |-> file_patterns,
                            results |-> r.results, stdout |-> r.stdout, opened |-> r.opened]
    /\ pc' = "tree_done"
    /\ UNCHANGED <<old_src, new_src, old_api, new_api, changes, out_vars,
                   analyzers, old_dir, new_dir, pair_call, returned>>

NextTree == Register \/ AnalyzeFilePair \/ AnalyzeDirectory

SpecTree == InitTree /\ [][NextTree]_vars

----------------------------------------------------------------------------
\* the exception analyze_breaking_changes raises for a language without analyzer
UnsupportedLanguage(language) ==
    Exception("ValueError", <<"Unsupported language: ">> \o language)

\* the call recorded in pair_call failed for this language before any open()
FailedUnsupported(language) ==
    /\ pair_call.raised = UnsupportedLanguage(language)
    /\ pair_call.opened = <<>>
    /\ pair_call.changes = <<>>

\* the call recorded in pair_call did not fail for want of an analyzer
NotUnsupported == pair_call.raised.type # "ValueError"

(* C15, as stated: analyze_breaking_changes resolves the language as the   *)
(* language argument when given and otherwise as the suffix of the old     *)
(* file, and fails with "Unsupported language" before any file is opened   *)
(* exactly when no analyzer is registered for that language.               *)
C15_LanguageIsOverrideOrSuffix ==
    pair_call.called =>
        LET language == IF pair_call.language # None
                        THEN pair_call.language
                        ELSE suffix(pair_call.path)
        IN  IF DictHas(analyzers, language)
            THEN NotUnsupported
            ELSE FailedUnsupported(language)

(* C15, amended: the language is the language argument when given and      *)
(* otherwise the suffix of the old file in lower case; the call fails with *)
(* "Unsupported language" exactly when no analyzer is registered for that  *)
(* language, and then neither the old nor the new file has been opened.    *)
C15_LanguageIsOverrideOrLowerSuffix ==
    pair_call.called =>
        LET language == IF pair_call.language # None
                        THEN pair_call.language
                        ELSE lower(suffix(pair_call.path))
        IN  IF DictHas(analyzers, language)
            THEN NotUnsupported
            ELSE FailedUnsupported(language)

\* c.pyi given without a language while only ".py" is registered: the call
\* fails for ".pyi" and has opened nothing
C15_Witness ==
    /\ pair_call.called
    /\ pair_call.path = Path_c
    /\ pair_call.language = None
    /\ ~DictHas(analyzers, <<".pyi">>)
    /\ FailedUnsupported(<<".pyi">>)

----------------------------------------------------------------------------
\* the patterns of the call recorded in tree_call, "*.py" when none was given
PatternsOfCall ==
    IF tree_call.file_patterns = None THEN << <<"*", ".py">> >> ELSE tree_call.file_patterns

\* a file at the path under the old root matches a pattern of the call
MatchesAPattern(path) ==
    /\ DictHas(old_dir, path)
    /\ \E i \in 1..Len(PatternsOfCall) : Matches(PatternsOfCall[i], path)

\* analyze_breaking_changes on the pair of files at the path, called on its own
PairAt(path) == analyze_breaking_changes(analyzers, old_dir, new_dir, path, None)

\* a line printed by the call recorded in tree_call names the path
HasDiagnostic(path) ==
    \E i \in 1..Len(tree_call.stdout) :
        /\ Len(tree_call.stdout[i]) > Len(path)
        /\ SubSeq(tree_call.stdout[i], 1, 1 + Len(path)) = <<"Error analyzing ">> \o path

\* the call recorded in tree_call opened a file at the path, under either root
WasOpened(path) ==
    \E i \in 1..Len(tree_call.opened) : tree_call.opened[i].path = path

(* C16: the mapping analyze_directory_changes returns has an entry for a   *)
(* relative path exactly when a file matching a pattern is at that path    *)
(* under the old root, a file is at the same path under the new root,      *)
(* analyze_breaking_changes on the pair succeeds and its list of changes   *)
(* is not empty, and the entry is that list; a file only under the old     *)
(* root gets no entry, no printed line and is not opened; a file in both   *)
(* roots without changes gets no entry.                                    *)
C16_EntryIffMatchedPairWithChanges ==
    tree_call.called =>
        \A path \in PathPool :
            /\ DictHas(tree_call.results, path) <=>
                    /\ MatchesAPattern(path)
                    /\ DictHas(new_dir, path)
                    /\ PairAt(path).raised = NoException
                    /\ PairAt(path).changes # <<>>
            /\ DictHas(tree_call.results, path) =>
                    DictGet(tree_call.results, path) = PairAt(path).changes
            /\ DictHas(old_dir, path) /\ ~DictHas(new_dir, path) =>
                    /\ ~DictHas(tree_call.results, path)
                    /\ ~HasDiagnostic(path)
                    /\ ~WasOpened(path)
            /\ \A i, j \in 1..Len(tree_call.results) :
                    tree_call.results[i].k = tree_call.results[j].k => i = j

\* pkg/a.py is in both roots with a renamed parameter and pkg/b.py only in
\* the old root: the mapping has the entry of pkg/a.py and nothing else,
\* and nothing was printed
C16_Witness ==
    /\ tree_call.called
    /\ DictKeys(old_dir) = <<Path_a, Path_b>>
    /\ DictKeys(new_dir) = <<Path_a>>
    /\ DictGet(old_dir, Path_b) = GoodFile
    /\ DictKeys(tree_call.results) = <<Path_a>>
    /\ DictGet(tree_call.results, Path_a) # <<>>
    /\ tree_call.stdout = <<>>

\* pkg/a.py is in both roots unchanged and pkg/b.py only in the old root:
\* the mapping is empty and nothing was printed
C16_ScenarioReached ==
    /\ tree_call.called
    /\ old_dir = <<[k |-> Path_a, v |-> GoodFile], [k |-> Path_b, v |-> GoodFile]>>
    /\ new_dir = <<[k |-> Path_a, v |-> GoodFile]>>
    /\ tree_call.results = <<>>
    /\ tree_call.stdout = <<>>

----------------------------------------------------------------------------
\* the pair of files at the path is visited by the call recorded in tree_call
IsVisitedPair(path) == MatchesAPattern(path) /\ DictHas(new_dir, path)

\* the pair of files at the path is visited and analyze_breaking_changes fails on it
IsFailingPair(path) == IsVisitedPair(path) /\ PairAt(path).raised # NoException

\* the line printed for the failure of the pair at the path
DiagnosticOf(path) ==
    <<"Error analyzing ">> \o path \o <<": ">> \o PairAt(path).raised.message

\* the number of lines of the sequence equal to the line
Occurrences(lines, line) == Cardinality({i \in 1..Len(lines) : lines[i] = line})

\* the number of patterns of the call that the path matches
MatchCount(path) ==
    Cardinality({i \in 1..Len(PatternsOfCall) : Matches(PatternsOfCall[i], path)})

\* the pair at the path was handed to analyze_breaking_changes: a file of it
\* was opened, or the call failed before and its line was printed
WasAnalysed(path) == WasOpened(path) \/ HasDiagnostic(path)

\* the directory without the file at the path
WithoutFile(dir, path) ==
    LET Other(entry) == entry.k # path IN SelectSeq(dir, Other)

\* what analyze_directory_changes returns, with the arguments of the call
\* recorded in tree_call, on the two trees without the files at the path
ResultsWithout(path) ==
    analyze_directory_changes(analyzers, WithoutFile(old_dir, path),
                              WithoutFile(new_dir, path), tree_call.file_patterns).results

(* C17: when analyze_breaking_changes fails for a pair of files that       *)
(* analyze_directory_changes visits (a file that does not parse, a language*)
(* without analyzer), the line "Error analyzing <path>: <error>" is        *)
(* printed for that pair, every other visited pair is still analysed, the  *)
(* call returns its mapping, and the mapping is the one the same call      *)
(* returns on the trees without the failing file.                          *)
C17_FailureOfOnePairDoesNotAbort ==
    tree_call.called =>
        \A path \in PathPool :
            IsFailingPair(path) =>
                /\ Occurrences(tree_call.stdout, DiagnosticOf(path)) = MatchCount(path)
                /\ \A other \in PathPool : IsVisitedPair(other) => WasAnalysed(other)
                /\ ~DictHas(tree_call.results, path)
                /\ tree_call.results = ResultsWithout(path)

\* pkg/a.py does not parse and is visited first, pkg/b.py is visited after
\* it and has a renamed parameter: one line is printed for pkg/a.py and the
\* mapping has the entry of pkg/b.py
C17_Witness ==
    /\ tree_call.called
    /\ DictKeys(old_dir) = <<Path_a, Path_b>>
    /\ DictGet(old_dir, Path_a) = BadFile
    /\ IsFailingPair(Path_a)
    /\ tree_call.stdout = <<DiagnosticOf(Path_a)>>
    /\ DictKeys(tree_call.results) = <<Path_b>>
    /\ WasOpened(Path_b)

----------------------------------------------------------------------------
\* an analyzer is registered for the suffix of the path, so that the pattern
\* of that language matches the path
HasRegisteredSuffix(path) == DictHas(analyzers, suffix(path))

(* C18: when analyze_directory_changes is called without patterns, the     *)
(* patterns are one per language registered in self.analyzers at the time  *)
(* of the call: a file in both roots is analysed exactly when an analyzer  *)
(* is registered for its suffix, also for a suffix registered after the    *)
(* construction of the ASTDiffAnalyzer.                                    *)
C18_DefaultPatternsFollowRegistry ==
    (tree_call.called /\ tree_call.file_patterns = None) =>
        \A path \in PathPool :
            (DictHas(old_dir, path) /\ DictHas(new_dir, path)) =>
                (WasAnalysed(path) <=> HasRegisteredSuffix(path))

\* the same for the one language registered by __init__
C18_HoldsForPy ==
    (tree_call.called /\ tree_call.file_patterns = None) =>
        \A path \in PathPool :
            (DictHas(old_dir, path) /\ DictHas(new_dir, path)) =>
                (WasAnalysed(path) <=> suffix(path) = <<".py">>)

----------------------------------------------------------------------------
(* analyze_breaking_changes called again on the same two files, on the     *)
(* same ASTDiffAnalyzer or on a new one.                                   *)

MaxRuns == 2

\* return changes
Return ==
    /\ pc = "done"
    /\ returned' = Append(returned, changes)
    /\ pc' = "returned"
    /\ UNCHANGED <<old_src, new_src, old_api, new_api, changes, out_vars, tree_vars>>

\* a next call that compares the surfaces the call before extracted
CallAgain_OnSameSurfaces ==
    /\ pc = "returned"
    /\ Len(returned) < MaxRuns
    /\ changes' = <<>>
    /\ pc' = "compare"
    /\ UNCHANGED <<old_src, new_src, old_api, new_api, out_vars, tree_vars, returned>>

\* the next call of analyze_breaking_changes on the same files, after
\* ASTDiffAnalyzer() or not: old_api, new_api and changes are not yet bound
CallAgain ==
    /\ pc = "returned"
    /\ Len(returned) < MaxRuns
    /\ \E fresh \in BOOLEAN :
          analyzers' = IF fresh THEN DefaultAnalyzers ELSE analyzers
    /\ old_api' = EmptyApi
    /\ new_api' = EmptyApi
    /\ changes' = <<>>
    /\ pc' = "parse"
    /\ UNCHANGED <<old_src, new_src, out_vars, old_dir, new_dir, pair_call, tree_call, returned>>

NextRerun == Extract \/ Compare \/ Return \/ CallAgain

SpecRerun == Init /\ [][NextRerun]_vars

----------------------------------------------------------------------------
(* compare_apis called with one surface as old_api and as new_api: the     *)
(* two parameters are bound to the same dict.                              *)

InitSelf ==
    /\ \E k \in 0..MaxStmts : old_src \in [1..k -> Pool]
    /\ new_src = <<>>
    /\ old_api = EmptyApi
    /\ new_api = EmptyApi
    /\ changes = <<>>
    /\ pc = "parse"
    /\ OutIdle
    /\ TreeIdle
    /\ returned = <<>>

\* api = analyzer.extract_public_api(analyzer.parse_file(file))
ExtractOne ==
    /\ pc = "parse"
    /\ old_api' = extract_public_api(parse_file(old_src))
    /\ pc' = "compare"
    /\ UNCHANGED <<old_src, new_src, new_api, changes, out_vars, tree_vars, returned>>

\* changes = analyzer.compare_apis(api, api)
CompareSelf ==
    /\ pc = "compare"
    /\ LET r == compare_apis([old |-> old_api, new |-> new_api], "old", "old")
       IN  /\ changes' = r.changes
           /\ old_api' = r.heap.old
           /\ new_api' = r.heap.new
    /\ pc' = "done"
    /\ UNCHANGED <<old_src, new_src, out_vars, tree_vars, returned>>

NextSelf == ExtractOne \/ CompareSelf

SpecSelf == InitSelf /\ [][NextSelf]_vars

(* C22: compare_apis of an extracted surface with itself, the same dict    *)
(* given as old_api and as new_api, returns the empty list, also when the  *)
(* surface has functions or methods with *args or **kwargs.                *)
C22_SelfComparisonIsEmpty ==
    pc = "done" => changes = <<>>

\* a function or a method of the surface has *args or **kwargs
HasVariadic(api) ==
    \/ \E i \in 1..Len(api.functions) :
          api.functions[i].v.vararg # None \/ api.functions[i].v.kwarg # None
    \/ \E i \in 1..Len(api.classes) : \E j \in 1..Len(api.classes[i].v.methods) :
          \/ api.classes[i].v.methods[j].v.vararg # None
          \/ api.classes[i].v.methods[j].v.kwarg # None

\* the same for the surfaces without *args and **kwargs
C22_HoldsWithoutVariadics ==
    (pc = "done" /\ ~HasVariadic(extract_public_api(parse_file(old_src)))) => changes = <<>>

\* a surface with a variadic function compared with itself gives changes,
\* all of them signature changes
C22_SelfComparisonReportsVariadics ==
    (pc = "done" /\ HasVariadic(extract_public_api(parse_file(old_src)))) =>
        /\ changes # <<>>
        /\ \A i \in 1..Len(changes) :
              changes[i].change_type \in {FUNCTION_SIGNATURE_CHANGED, METHOD_SIGNATURE_CHANGED}

----------------------------------------------------------------------------
(* Two files that differ in one function or one method, and there only in  *)
(* the number of defaults, the decorators, the docstring or the line.      *)

\* def f(a, b=0): pass
S_f_defaulted == FunctionDef(NameF, << <<"a">>, <<"b">> >>, 1, None, None, None, <<>>)
\* @cache
\* def f(a, b): pass
S_f_decorated == [S_f EXCEPT !.decorator_list = << <<"cache">> >>]
\* def f(a, b):
\*     "doc"
S_f_documented == [S_f EXCEPT !.docstring = <<"doc">>]
\* @cache
\* @wraps
\* def f(a=0, b=0):
\*     "doc"
S_f_all ==
    [FunctionDef(NameF, << <<"a">>, <<"b">> >>, 2, None, None, None, <<>>)
        EXCEPT !.decorator_list = << <<"cache">>, <<"wraps">> >>, !.docstring = <<"doc">>]

SameSignatureF == {S_f, S_f_defaulted, S_f_decorated, S_f_documented, S_f_all}

\* class C:
\*     def m(self, a=0): pass
S_C_m_defaulted ==
    ClassDef(NameC, <<>>, << FunctionDef(NameM, <<Self, <<"a">> >>, 1, None, None, None, <<>>) >>)
\* class C:
\*     @cache
\*     def m(self, a): pass
S_C_m_decorated ==
    ClassDef(NameC, <<>>, << [Def(NameM, <<Self, <<"a">> >>) EXCEPT !.decorator_list = << <<"cache">> >>] >>)
\* class C:
\*     def m(self, a):
\*         "doc"
S_C_m_documented ==
    ClassDef(NameC, <<>>, << [Def(NameM, <<Self, <<"a">> >>) EXCEPT !.docstring = <<"doc">>] >>)
\* class C:
\*     z = 1
\*     def m(self, a): pass
S_C_m_moved ==
    ClassDef(NameC, <<>>, << Assign(<< <<"_", "z">> >>, "Constant", <<"1">>), Def(NameM, <<Self, <<"a">> >>) >>)

SameSignatureC == {S_C, S_C_m_defaulted, S_C_m_decorated, S_C_m_documented, S_C_m_moved}

\* the pairs (old statement, new statement) of the edits
QuietEdits == (SameSignatureF \X SameSignatureF) \cup (SameSignatureC \X SameSignatureC)

\* the statements around, none of which declares f or C
QuietContext == {S_g, S_h, S_D, S_P, S_assign, S_assign_list, S_import, S_from}

InitQuiet ==
    /\ \E k \in 0..MaxContext : \E context \in [1..k -> QuietContext] :
       \E p_old \in 0..k : \E p_new \in 0..k : \E e \in QuietEdits :
          /\ old_src = InsertAt(context, p_old, e[1])
          /\ new_src = InsertAt(context, p_new, e[2])
    /\ old_api = EmptyApi
    /\ new_api = EmptyApi
    /\ changes = <<>>
    /\ pc = "parse"
    /\ OutIdle
    /\ TreeIdle
    /\ returned = <<>>

SpecQuiet == InitQuiet /\ [][Next]_vars

\* the info of the edited function or method in a surface
EditedInfo(api) ==
    IF DictHas(api.classes, NameC)
    THEN DictGet(DictGet(api.classes, NameC).methods, NameM)
    ELSE DictGet(api.functions, NameF)

\* the fields of an info that _format_function_signature reads
SignatureFields(info) == <<info.name, info.args, info.vararg, info.kwarg, info.returns>>

(* C23: when a function or method is in both surfaces and differs only in  *)
(* the number of defaults, the decorators, the docstring or the line, and  *)
(* the rest of the two files is the same, compare_apis reports no change.  *)
C23_NonSignatureFieldsYieldNoChange ==
    pc = "done" => changes = <<>>

\* f(a, b=0) at line 1 in the old file, f(a, b) at another line in the new
\* file: the infos differ in defaults and lineno and no change is reported
C23_Witness ==
    /\ pc = "done"
    /\ DictHas(old_api.functions, NameF) /\ DictHas(new_api.functions, NameF)
    /\ ~DictHas(old_api.classes, NameD)
    /\ DictGet(old_api.functions, NameF).defaults = 1
    /\ DictGet(new_api.functions, NameF).defaults = 0
    /\ DictGet(old_api.functions, NameF).lineno # DictGet(new_api.functions, NameF).lineno
    /\ changes = <<>>

\* in every pair of files the two infos agree on the signature fields, and
\* in some they differ in each of the other fields
C23_InfosAgreeOnSignatureFields ==
    pc = "compare" => SignatureFields(EditedInfo(old_api)) = SignatureFields(EditedInfo(new_api))

----------------------------------------------------------------------------
(* Two files with one class each, of the same name, whose methods are      *)
(* removed, added or changed; some names contain the word "Function".      *)

MaxMethods == 1

Name_applyFunction == <<"apply", "Function">>
Name_Function == <<"Function">>
Name_FunctionSet == <<"Function", "Set">>

MethodNames == {NameM, Name_applyFunction, Name_Function}
ClassNames == {NameC, Name_FunctionSet}

\* def name(self): pass, and def name(self, a): pass
MethodPool ==
    {Def(name, <<Self>>) : name \in MethodNames}
    \cup {Def(name, <<Self, <<"a">> >>) : name \in MethodNames}

InitMethod ==
    /\ \E class_name \in ClassNames :
       \E k1 \in 0..MaxMethods : \E k2 \in 0..MaxMethods :
       \E old_methods \in [1..k1 -> MethodPool] : \E new_methods \in [1..k2 -> MethodPool] :
          /\ old_src = <<ClassDef(class_name, <<>>, old_methods)>>
          /\ new_src = <<ClassDef(class_name, <<>>, new_methods)>>
    /\ old_api = EmptyApi
    /\ new_api = EmptyApi
    /\ changes = <<>>
    /\ pc = "parse"
    /\ OutIdle
    /\ TreeIdle
    /\ returned = <<>>

SpecMethod == InitMethod /\ [][Next]_vars

\* the name of the class of the two files
TheClass == old_src[1].name

\* the description of a function-level change with its first word
\* "Function" replaced by "Method in class '<class>'"
LeadingWordReplaced(class_name, method_name, what) ==
    <<"Method in class '">> \o class_name \o <<"'">> \o Tail(FunctionDescription(method_name, what))

\* the names of the methods of the class in the old and in the new surface
OldMethodNames == KeySet(DictGet(ExtractedOld.classes, TheClass).methods)
NewMethodNames == KeySet(DictGet(ExtractedNew.classes, TheClass).methods)

\* what a function-level description says after the name, by change type
WhatOf(change_type) ==
    CASE change_type = METHOD_REMOVED -> " was removed"
      [] change_type = METHOD_ADDED -> " was added"
      [] change_type = METHOD_SIGNATURE_CHANGED -> " signature changed"

\* the names of the methods a method-level change of the type can be about
NamesOf(change_type) ==
    CASE change_type = METHOD_REMOVED -> OldMethodNames \ NewMethodNames
      [] change_type = METHOD_ADDED -> NewMethodNames \ OldMethodNames
      [] change_type = METHOD_SIGNATURE_CHANGED -> OldMethodNames \cap NewMethodNames

(* C24: the description of a method-level change for method m of class C   *)
(* is the function-level description with its leading word "Function"      *)
(* replaced by "Method in class 'C'" and nothing else altered: it still    *)
(* has the name of the method, also when that name contains "Function".    *)
C24_OnlyLeadingFunctionReplaced ==
    pc = "done" =>
        \A i \in 1..Len(changes) :
            changes[i].change_type \in MethodKinds =>
                \E name \in NamesOf(changes[i].change_type) :
                    changes[i].description
                        = LeadingWordReplaced(TheClass, name, WhatOf(changes[i].change_type))

\* the same for the methods whose name does not contain "Function"
C24_HoldsForNamesWithoutFunction ==
    (pc = "done" /\ \A name \in OldMethodNames \cup NewMethodNames :
                       \A j \in 1..Len(name) : name[j] # "Function") =>
        \A i \in 1..Len(changes) :
            changes[i].change_type \in MethodKinds =>
                \E name \in NamesOf(changes[i].change_type) :
                    changes[i].description
                        = LeadingWordReplaced(TheClass, name, WhatOf(changes[i].change_type))

\* a method-level change for a method without "Function" in its name, in
\* the class FunctionSet, with the description as claimed
C24_PlainNameCase ==
    /\ pc = "done"
    /\ TheClass = Name_FunctionSet
    /\ \E i \in 1..Len(changes) :
          /\ changes[i].change_type = METHOD_REMOVED
          /\ changes[i].description = LeadingWordReplaced(Name_FunctionSet, NameM, " was removed")

====
